---- MODULE Spec2Model ----
(***************************************************************************)
(* PSP reconciliation pipeline: webhook intake, normalization, the         *)
(* hierarchical matching engine and the double-entry ledger poster.        *)
(*                                                                         *)
(* Tables are sets of rows (records).  A handler that issues several       *)
(* statements is split at its commits and at its calls to external         *)
(* services, so that concurrent invocations interleave as they do under    *)
(* READ COMMITTED isolation.  uuid4() is a counter that never repeats.     *)
(* Identifiers are opaque tokens (integers); 0 stands for "no row"; the    *)
(* UUID(...) and str(...) coercions between their representations are not *)
(* modelled, and a SQL statement is read by the rows it names.             *)
(* Optional strings use NULL; optional integers are <<>> or <<v>>.         *)
(* Dates are day numbers, date strings are parsed to them.  Amounts are    *)
(* integers in the smallest unit; FX rates are thousandths.  Wall-clock    *)
(* timestamps (processed_at, expires_at, ingestion_timestamp) are left     *)
(* out.  A dict is a record; {} is the record without fields.              *)
(*                                                                         *)
(* WebhookHandler._get_psp_config is a stub in the source (it returns {},  *)
(* which makes every signature invalid); webhook_get_psp_config reads the  *)
(* psp_connection table instead, and the table without rows reproduces     *)
(* the stub.  The matching stage publishes nothing in the source; the      *)
(* ledger poster is therefore driven by matched_records, the (transaction, *)
(* match) pairs of MATCHED results, and it is not part of the pipeline     *)
(* specification Spec.                                                     *)
(*                                                                         *)
(* Specifications: SpecIntake, SpecIntakeRace (handle_webhook),            *)
(* SpecNormalize, SpecNormalizeSeq (normalize_event), SpecMatch,           *)
(* SpecMatchSeq (match_transaction), SpecLedger (post_matched_transaction),*)
(* SpecPriority (match_transaction at the priority cuts), SpecRecon        *)
(* (matching and posting together), Spec (the pipeline); SpecIntakeFair    *)
(* and SpecFair add weak fairness of the steps.  SpecMatchInterrupted      *)
(* (match_transaction that can stop at any step), SpecShared (a store of   *)
(* two tenants), SpecPostAny (the poster given any stored pair),           *)
(* SpecBackfill (backfill_historical), SpecChargeback and                  *)
(* SpecChargebackSeq (update_chargeback_status).                           *)
(***************************************************************************)
EXTENDS Integers, Sequences, FiniteSets, TLC

VARIABLES
    psp_connection,           \* table psp_connection joined with entity
    fx_rate,                  \* table fx_rate
    idempotency_table,        \* DynamoDB table of processed idempotency keys
    raw_archive,              \* S3 bucket of raw events
    raw_stream,               \* Kinesis stream of raw records
    hw,                       \* handle_webhook invocations, per worker
    responses,                \* history: what each handle_webhook call answered
    nw,                       \* normalize_event invocations, per worker
    normalized_stream,        \* Kinesis stream of normalized records
    normalize_results,        \* history: what each normalize_event call returned
    normalized_transaction,   \* table normalized_transaction
    psp_settlement,           \* table psp_settlement (immutable after load)
    reconciliation_match,     \* table reconciliation_match
    reconciliation_exception, \* table reconciliation_exception
    ledger_entry,             \* table ledger_entry
    next_uuid,                \* uuid4(): next fresh identifier
    mw,                       \* match_transaction invocations, per worker
    match_results,            \* history: what each match_transaction call returned
    lw,                       \* post_matched_transaction invocations, per worker
    post_results,             \* history: what each post_matched_transaction call returned
    backfill,                 \* the backfill_historical invocation
    chargeback,               \* table chargeback
    cw,                       \* update_chargeback_status invocations, per worker
    chargeback_results        \* history: what each update_chargeback_status call returned

vars == <<psp_connection, fx_rate, idempotency_table, raw_archive, raw_stream,
          hw, responses, nw, normalized_stream, normalize_results,
          normalized_transaction, psp_settlement, reconciliation_match,
          reconciliation_exception, ledger_entry, next_uuid,
          mw, match_results, lw, post_results,
          backfill, chargeback, cw, chargeback_results>>

\* What intake and normalization own
intake_vars == <<idempotency_table, raw_archive, raw_stream, hw, responses>>
normalizer_vars == <<nw, normalized_stream, normalize_results>>
config_vars == <<psp_connection, fx_rate>>
ingest_vars == <<config_vars, intake_vars, normalizer_vars>>
\* What reprocessing and the chargeback service own
service_vars == <<backfill, chargeback, cw, chargeback_results>>
\* What matching and the ledger poster own
recon_vars == <<psp_settlement, reconciliation_match, reconciliation_exception,
                ledger_entry, mw, match_results, lw, post_results>>

----------------------------------------------------------------------------
(* Bounds of the model *)

MaxMatchCalls == 3
MaxPostCalls == 2
MaxWebhookCalls == 4
MaxConcurrentWebhookCalls == 2
MaxNormalizeCalls == 3
MaxChargebackCalls == 4

----------------------------------------------------------------------------
(* Values *)

NULL == "NULL"
None == <<>>
Some(v) == <<v>>
NoRow == [transaction_id |-> 0]
NoObj == [match_id |-> 0]
NoExc == [exception_id |-> 0]

Abs(x) == IF x < 0 THEN -x ELSE x
Max2(a, b) == IF a >= b THEN a ELSE b

MatchWorkers == {"m1", "m2"}
PostWorkers == {"p1", "p2"}
NormalizerWorkers == {"n1", "n2"}
IdleNormalizer == [pc |-> "idle", raw |-> <<>>, normalized |-> NoRow]

----------------------------------------------------------------------------
(* Test data: the rows a run starts from *)

Txn(id, psp_txn, amount, pay, sett, cust, etype, fee, net) ==
    [transaction_id |-> id, tenant_id |-> "tenant_a", entity_id |-> "entity_1",
     psp_connection_id |-> "psp_stripe_us_001", event_type |-> etype,
     transaction_date |-> 15, amount_value |-> amount, amount_currency |-> "USD",
     psp_transaction_id |-> psp_txn, psp_payment_id |-> pay,
     psp_settlement_id |-> sett, customer_id |-> cust,
     psp_fee |-> fee, net_amount |-> net,
     brand_id |-> "brand_1", amount_original_currency |-> NULL,
     amount_fx_rate |-> None, source_idempotency_key |-> <<>>,
     reconciliation_status |-> "PENDING", version |-> 1]

Stl(id, line, day, amount, sett, ids) ==
    [settlement_id |-> id, tenant_id |-> "tenant_a",
     psp_connection_id |-> "psp_stripe_us_001", settlement_date |-> day,
     settlement_batch_id |-> "batch_1", settlement_line_number |-> line,
     amount_value |-> amount, amount_currency |-> "USD",
     psp_settlement_id |-> sett, psp_transaction_ids |-> ids]

TxnA == Txn(11, "txn_1", 100000, "pay_1", "set_A", NULL, "DEPOSIT", Some(2900), Some(97100))
TxnB == Txn(12, "txn_2", 100000, NULL, "set_A", NULL, "WITHDRAWAL", None, Some(100000))
TxnC == Txn(13, "txn_3", 250, NULL, NULL, NULL, "REFUND", None, Some(250))
TxnD == Txn(14, "txn_4", 100000, NULL, NULL, "cust_1", "CHARGEBACK", None, Some(100000))

StlStrong == Stl(1, 1, 15, 97100, "set_A", {})
StlStrong2 == Stl(2, 2, 15, 2900, "set_A", {})
StlRef == Stl(3, 3, 15, 99500, NULL, {"pay_1"})
StlRefEdge == Stl(4, 4, 15, 99000, NULL, {"pay_1"})
StlNextDay == Stl(5, 5, 16, 100000, NULL, {"cust_1"})
StlExact == Stl(6, 6, 15, 100000, NULL, {})
StlDrift == Stl(7, 7, 15, 98000, NULL, {"pay_1"})

SettlementTables ==
    { {StlStrong}, {StlStrong, StlStrong2}, {StlStrong, StlRef}, {StlRefEdge},
      {StlRef, StlRefEdge}, {StlNextDay}, {StlExact}, {StlDrift}, {} }

TransactionTables == { {TxnA, TxnB}, {TxnA}, {TxnC, TxnD}, {TxnD} }

----------------------------------------------------------------------------
(* Reprocessing and chargebacks at rest *)

ChargebackWorkers == {"c1", "c2"}
NoChargeback == [chargeback_id |-> 0]
IdleBackfill == [pc |-> "idle"]
IdleChargeback == [pc |-> "idle", chargeback |-> NoChargeback, new_status |-> NULL,
                   user_id |-> NULL]

InitServicesIdle ==
    /\ backfill = IdleBackfill
    /\ chargeback = {}
    /\ cw = [w \in ChargebackWorkers |-> IdleChargeback]
    /\ chargeback_results = <<>>

----------------------------------------------------------------------------
(* Webhook intake: services/ingestion/webhook_handler.py *)

HandlerWorkers == {"h1", "h2"}

\* dict.get(key, default)
Get(d, key, default) == IF key \in DOMAIN d THEN d[key] ELSE default

\* Python's "a or b" on optional strings: None and '' are falsy
Or(a, b) == IF a # NULL /\ a # "" THEN a ELSE b

\* hmac.new(secret, body, sha256).hexdigest(): digests are equal exactly when
\* secret and body are
hmac_sha256(secret, body) == <<"hmac", secret, body>>

\* secrets_manager.get_secret_value(SecretId = arn)['SecretString']
get_secret_value(arn) == <<"SecretString", arn>>

Connection(tenant, conn, entity, base_currency) ==
    [tenant_id |-> tenant, psp_connection_id |-> conn, entity_id |-> entity,
     brand_id |-> "brand_1", base_currency |-> base_currency,
     webhook_signature_secret_arn |-> <<"arn", tenant, conn>>]

ConnStripe == Connection("tenant_a", "psp_stripe_us_001", "entity_1", "USD")
ConnStripeB == Connection("tenant_b", "psp_stripe_us_001", "entity_2", "USD")

\* The psp_connection table: loaded, or without any row
ConnectionTables == { {ConnStripe, ConnStripeB}, {} }

\* Request bodies (parsed JSON)
EventA ==
    [id |-> "evt_1", type |-> "payment.succeeded", created |-> "2024-01-15",
     event_type |-> "DEPOSIT", amount |-> 100000, currency |-> "USD", fee |-> 2900,
     psp_transaction_id |-> "txn_1", psp_payment_id |-> "pay_1",
     psp_settlement_id |-> "set_A"]

\* A second event of the PSP for the same payment: SETTLEMENT maps to DEPOSIT
EventSettled ==
    [id |-> "evt_2", type |-> "payment.settled", created |-> "2024-01-16",
     transaction_date |-> "2024-01-15", event_type |-> "SETTLEMENT",
     amount |-> 100000, currency |-> "USD", net |-> 97100,
     psp_transaction_id |-> "txn_1", psp_settlement_id |-> "set_A"]

EventEur ==
    [event_id |-> "evt_3", created |-> "2024-01-15", event_type |-> "WITHDRAWAL",
     amount |-> 50000, currency |-> "EUR", psp_event_id |-> "txn_9",
     customer_id |-> "cust_1"]

\* An event in EUR that carries its own fee and net amount
EventEurNet ==
    [id |-> "evt_4", created |-> "2024-01-15", transaction_date |-> "2024-01-15",
     event_type |-> "DEPOSIT", amount |-> 100000, currency |-> "EUR",
     fee |-> 2900, net |-> 97100, psp_transaction_id |-> "txn_8"]

valid_signature(tenant, conn, body) ==
    hmac_sha256(get_secret_value(<<"arn", tenant, conn>>), body)

Request(tenant, conn, body, signature, key) ==
    [tenant_id |-> tenant, psp_connection_id |-> conn, body |-> body,
     x_signature |-> signature, x_idempotency_key |-> key]

Signed(tenant, conn, body, key) ==
    Request(tenant, conn, body, valid_signature(tenant, conn, body), key)

ReqA == Signed("tenant_a", "psp_stripe_us_001", EventA, "key_1")
ReqANoKey == Signed("tenant_a", "psp_stripe_us_001", EventA, NULL)
ReqSettled == Signed("tenant_a", "psp_stripe_us_001", EventSettled, NULL)
ReqEur == Signed("tenant_a", "psp_stripe_us_001", EventEur, "key_3")
ReqEurNet == Signed("tenant_a", "psp_stripe_us_001", EventEurNet, "key_4")
\* Another tenant sends its own event under the same key string
ReqOtherTenant == Signed("tenant_b", "psp_stripe_us_001", EventSettled, "key_1")
ReqForged ==
    Request("tenant_a", "psp_stripe_us_001", EventA,
            hmac_sha256(get_secret_value(<<"arn", "guess", "guess">>), EventA), "key_2")
ReqUnsigned == Request("tenant_a", "psp_stripe_us_001", EventA, None, "key_2")

Requests == {ReqA, ReqANoKey, ReqSettled, ReqEur, ReqOtherTenant, ReqForged, ReqUnsigned}

IdleHandler == [pc |-> "idle", req |-> <<>>, idempotency_key |-> <<>>, s3_path |-> 0]

WebhookCallsBegun ==
    Len(responses) + Cardinality({w \in HandlerWorkers : hw[w].pc # "idle"})

\* The PSP connection configuration of (tenant_id, psp_connection_id); {} in
\* Python is the record without fields
webhook_get_psp_config(tenant_id, psp_connection_id) ==
    LET rows == { c \in psp_connection : /\ c.tenant_id = tenant_id
                                         /\ c.psp_connection_id = psp_connection_id }
    IN IF rows = {} THEN <<>>
       ELSE LET c == CHOOSE c \in rows : TRUE
            IN [webhook_signature_secret_arn |-> c.webhook_signature_secret_arn]

validate_signature(body, signature, psp_config) ==
    IF signature = None THEN FALSE
    ELSE LET secret_arn == Get(psp_config, "webhook_signature_secret_arn", None)
         IN IF secret_arn = None THEN FALSE
            ELSE signature = hmac_sha256(get_secret_value(secret_arn), body)

\* f"{psp_connection_id}:{event_id}:{event_type}:{timestamp}": a key is the
\* sequence of its parts; a key given in the header is a single part
generate_idempotency_key(psp_connection_id, event_data) ==
    <<psp_connection_id,
      Or(Get(event_data, "id", NULL), Get(event_data, "event_id", "")),
      Or(Get(event_data, "type", NULL), Get(event_data, "event_type", "")),
      Or(Get(event_data, "created", NULL), Get(event_data, "timestamp", ""))>>

\* get_item(Key = {'idempotency_key': ...}); a failing lookup is logged and
\* answered False
check_idempotency(tenant_id, idempotency_key, lookup_fails) ==
    IF lookup_fails THEN FALSE
    ELSE \E item \in idempotency_table : item.idempotency_key = idempotency_key

Response(w, status_code, status, detail) ==
    [worker |-> w, request |-> hw[w].req, status_code |-> status_code,
     status |-> status, idempotency_key |-> hw[w].idempotency_key,
     s3_path |-> hw[w].s3_path, detail |-> detail]

\* "except Exception": whatever was raised inside handle_webhook, the 401
\* included, leaves as HTTPException(500)
Respond500(w, req, detail) ==
    /\ responses' = Append(responses,
          [worker |-> w, request |-> req, status_code |-> 500, status |-> "error",
           idempotency_key |-> <<>>, s3_path |-> 0, detail |-> detail])
    /\ hw' = [hw EXCEPT ![w] = IdleHandler]

\* handle_webhook, lines 72-93: body, configuration, signature, idempotency
\* key and the idempotency lookup
handle_webhook(w, req, lookup_fails) ==
    /\ hw[w].pc = "idle"
    /\ WebhookCallsBegun < MaxWebhookCalls
    /\ LET psp_config == webhook_get_psp_config(req.tenant_id, req.psp_connection_id)
           idempotency_key ==
               IF req.x_idempotency_key # NULL /\ req.x_idempotency_key # ""
               THEN <<req.x_idempotency_key>>
               ELSE generate_idempotency_key(req.psp_connection_id, req.body)
       IN
        IF ~validate_signature(req.body, req.x_signature, psp_config)
        THEN Respond500(w, req, "401: Invalid webhook signature")
        ELSE IF check_idempotency(req.tenant_id, idempotency_key, lookup_fails)
        THEN /\ responses' = Append(responses,
                   [worker |-> w, request |-> req, status_code |-> 200,
                    status |-> "duplicate", idempotency_key |-> idempotency_key,
                    s3_path |-> 0, detail |-> NULL])
             /\ UNCHANGED hw
        ELSE /\ hw' = [hw EXCEPT ![w] = [pc |-> "store", req |-> req,
                                         idempotency_key |-> idempotency_key,
                                         s3_path |-> 0]]
             /\ UNCHANGED responses
    /\ UNCHANGED <<idempotency_table, raw_archive, raw_stream, next_uuid>>
    /\ UNCHANGED <<service_vars, config_vars, normalizer_vars, normalized_transaction, recon_vars>>

\* _store_raw_event: put_object under a fresh event_id; the path names tenant
\* and event_id
store_raw_event(w, fault) ==
    /\ hw[w].pc = "store"
    /\ IF fault
       THEN /\ Respond500(w, hw[w].req, "put_object")
            /\ UNCHANGED <<raw_archive, next_uuid>>
       ELSE /\ raw_archive' = raw_archive \cup
                  {[s3_path |-> next_uuid, tenant_id |-> hw[w].req.tenant_id,
                    body |-> hw[w].req.body]}
            /\ next_uuid' = next_uuid + 1
            /\ hw' = [hw EXCEPT ![w].pc = "mark", ![w].s3_path = next_uuid]
            /\ UNCHANGED responses
    /\ UNCHANGED <<idempotency_table, raw_stream>>
    /\ UNCHANGED <<service_vars, config_vars, normalizer_vars, normalized_transaction, recon_vars>>

\* put_item(Item = ...): writes the item of this key, replacing one that exists
put_item(table, item) ==
    { i \in table : i.idempotency_key # item.idempotency_key } \cup {item}

\* _mark_idempotent
mark_idempotent(w, fault) ==
    /\ hw[w].pc = "mark"
    /\ IF fault
       THEN /\ Respond500(w, hw[w].req, "put_item")
            /\ UNCHANGED idempotency_table
       ELSE /\ idempotency_table' = put_item(idempotency_table,
                  [idempotency_key |-> hw[w].idempotency_key,
                   tenant_id |-> hw[w].req.tenant_id, s3_path |-> hw[w].s3_path])
            /\ hw' = [hw EXCEPT ![w].pc = "publish"]
            /\ UNCHANGED responses
    /\ UNCHANGED <<raw_archive, raw_stream, next_uuid>>
    /\ UNCHANGED <<service_vars, config_vars, normalizer_vars, normalized_transaction, recon_vars>>

\* The record _publish_to_kinesis puts on the raw stream
raw_record(req, idempotency_key, s3_path) ==
    [tenant_id |-> req.tenant_id, psp_connection_id |-> req.psp_connection_id,
     idempotency_key |-> idempotency_key, s3_path |-> s3_path,
     event_data |-> req.body, source_type |-> "WEBHOOK"]

\* _publish_to_kinesis and the "processed" answer, lines 100-108
publish_to_kinesis(w, fault) ==
    /\ hw[w].pc = "publish"
    /\ IF fault
       THEN /\ Respond500(w, hw[w].req, "put_record")
            /\ UNCHANGED raw_stream
       ELSE /\ raw_stream' = Append(raw_stream,
                  raw_record(hw[w].req, hw[w].idempotency_key, hw[w].s3_path))
            /\ responses' = Append(responses, Response(w, 200, "processed", NULL))
            /\ hw' = [hw EXCEPT ![w] = IdleHandler]
    /\ UNCHANGED <<idempotency_table, raw_archive, next_uuid>>
    /\ UNCHANGED <<service_vars, config_vars, normalizer_vars, normalized_transaction, recon_vars>>

InitIntakeIdle ==
    /\ idempotency_table = {}
    /\ raw_archive = {}
    /\ raw_stream = <<>>
    /\ hw = [w \in HandlerWorkers |-> IdleHandler]
    /\ responses = <<>>

InitNormalizerIdle ==
    /\ nw = [w \in NormalizerWorkers |-> IdleNormalizer]
    /\ normalized_stream = <<>>
    /\ normalize_results = <<>>

InitIngestIdle ==
    /\ psp_connection = {ConnStripe, ConnStripeB}
    /\ fx_rate = {}
    /\ InitServicesIdle
    /\ InitIntakeIdle
    /\ InitNormalizerIdle

----------------------------------------------------------------------------
(* NormalizationService: services/normalization/normalizer.py *)

\* date.today()
Today == 16

\* datetime.fromisoformat(...).date() as a day number; 0: not a date, ValueError
parse_date(str) ==
    CASE str = "2024-01-15" -> 15
      [] str = "2024-01-16" -> 16
      [] OTHER -> 0

\* event[key] = value
Put(d, key, value) ==
    [k \in DOMAIN d \cup {key} |-> IF k = key THEN value ELSE d[k]]

\* Rates are kept in thousandths: 1100 is 1.1
FxEurUsd ==
    [from_currency |-> "EUR", to_currency |-> "USD", rate_date |-> 15,
     rate |-> 1100, rate_source |-> "ECB", created_at |-> 1]

FxTables == { {}, {FxEurUsd} }

normalizer_get_psp_config(tenant_id, psp_connection_id) ==
    LET rows == { c \in psp_connection : /\ c.psp_connection_id = psp_connection_id
                                         /\ c.tenant_id = tenant_id }
    IN IF rows = {} THEN <<>>
       ELSE LET c == CHOOSE c \in rows : TRUE
            IN [entity_id |-> c.entity_id, base_currency |-> c.base_currency]

\* SELECT ... ORDER BY created_at DESC LIMIT 1; <<>> when there is no rate
get_fx_rate(from_currency, to_currency, rate_date) ==
    LET rows == { r \in fx_rate : /\ r.from_currency = from_currency
                                  /\ r.to_currency = to_currency
                                  /\ r.rate_date = rate_date }
    IN IF rows = {} THEN <<>>
       ELSE CHOOSE r \in rows : \A q \in rows : q.created_at <= r.created_at

\* _enrich_fx: converts only when a rate is found; without one the event goes
\* on in its own currency
enrich_fx(event, psp_config) ==
    LET amount_currency ==
            Or(Get(event, "currency", NULL), Get(event, "amount_currency", NULL))
        entity_base_currency == Get(psp_config, "base_currency", NULL)
        rate_date == IF "transaction_date" \in DOMAIN event
                     THEN parse_date(event.transaction_date) ELSE Today
        rate == get_fx_rate(amount_currency, entity_base_currency, rate_date)
    IN IF /\ amount_currency # NULL
          /\ entity_base_currency # NULL
          /\ amount_currency # entity_base_currency
          /\ rate # <<>>
       THEN Put(Put(Put(Put(Put(Put(event,
                "fx_rate", rate.rate),
                "fx_rate_source", rate.rate_source),
                "fx_rate_date", rate.rate_date),
                "original_currency", amount_currency),
                "amount", (Get(event, "amount", 0) * rate.rate) \div 1000),
                "currency", entity_base_currency)
       ELSE event

map_event_type(psp_event_type) ==
    IF psp_event_type \in {"DEPOSIT", "WITHDRAWAL", "REFUND", "CHARGEBACK"}
    THEN psp_event_type
    ELSE "DEPOSIT"

\* (entity_id, brand_id) of the connection; <<>> stands for the ValueError
get_entity_brand(tenant_id, psp_connection_id) ==
    LET rows == { c \in psp_connection : /\ c.psp_connection_id = psp_connection_id
                                         /\ c.tenant_id = tenant_id }
    IN IF rows = {} THEN <<>>
       ELSE LET c == CHOOSE c \in rows : TRUE IN <<c.entity_id, c.brand_id>>

\* _map_to_canonical; transaction_id is the uuid4() drawn for this object
map_to_canonical(tenant_id, psp_connection_id, event, raw_event, transaction_id) ==
    LET entity_brand == get_entity_brand(tenant_id, psp_connection_id)
        timestamp == Or(Get(event, "created", NULL), Get(event, "event_date", NULL))
        event_day == IF timestamp = NULL THEN 0 ELSE parse_date(timestamp)
        transaction_date == IF "transaction_date" \in DOMAIN event
                            THEN parse_date(event.transaction_date) ELSE event_day
        amount_value == Get(event, "amount", 0)
        psp_fee == Get(event, "fee", 0)
        net_amount == Get(event, "net", amount_value - psp_fee)
    IN IF entity_brand = <<>> \/ event_day = 0 \/ transaction_date = 0
       THEN NoRow
       ELSE [transaction_id |-> transaction_id, tenant_id |-> tenant_id,
             brand_id |-> entity_brand[2], entity_id |-> entity_brand[1],
             psp_connection_id |-> psp_connection_id,
             event_type |-> map_event_type(Get(event, "event_type", "")),
             transaction_date |-> transaction_date,
             amount_value |-> amount_value,
             amount_currency |-> Get(event, "currency", "USD"),
             amount_original_currency |-> Get(event, "original_currency", NULL),
             amount_fx_rate |-> IF "fx_rate" \in DOMAIN event
                                THEN Some(event.fx_rate) ELSE None,
             psp_transaction_id |-> Or(Get(event, "psp_transaction_id", NULL),
                                       Get(event, "psp_event_id", "")),
             psp_payment_id |-> Get(event, "psp_payment_id", NULL),
             psp_settlement_id |-> Get(event, "psp_settlement_id", NULL),
             customer_id |-> Get(event, "customer_id", NULL),
             psp_fee |-> IF psp_fee > 0 THEN Some(psp_fee) ELSE None,
             net_amount |-> Some(net_amount),
             reconciliation_status |-> "PENDING",
             source_idempotency_key |-> Get(raw_event, "idempotency_key", <<>>),
             version |-> 1]

NormalizeCallsBegun ==
    Len(normalize_results) + Cardinality({w \in NormalizerWorkers : nw[w].pc # "idle"})

NormalizeReturn(w, raw, kind, stored) ==
    /\ normalize_results' = Append(normalize_results,
          [worker |-> w, raw |-> raw, kind |-> kind, stored |-> stored])
    /\ nw' = [nw EXCEPT ![w] = IdleNormalizer]

\* normalize_event, lines 62-77: configuration, parse, FX enrichment and the
\* canonical object with its fresh transaction_id
normalize_event(w, raw_event) ==
    /\ nw[w].pc = "idle"
    /\ NormalizeCallsBegun < MaxNormalizeCalls
    /\ LET tenant_id == raw_event.tenant_id
           psp_connection_id == raw_event.psp_connection_id
           psp_config == normalizer_get_psp_config(tenant_id, psp_connection_id)
           enriched_event == enrich_fx(raw_event.event_data, psp_config)
           normalized == map_to_canonical(tenant_id, psp_connection_id,
                                          enriched_event, raw_event, next_uuid)
       IN IF normalized = NoRow
          THEN /\ NormalizeReturn(w, raw_event, "ValueError", NoRow)
               /\ UNCHANGED next_uuid
          ELSE /\ nw' = [nw EXCEPT ![w] = [pc |-> "select", raw |-> raw_event,
                                           normalized |-> normalized]]
               /\ next_uuid' = next_uuid + 1
               /\ UNCHANGED normalize_results
    /\ UNCHANGED <<normalized_transaction, normalized_stream>>
    /\ UNCHANGED <<service_vars, config_vars, intake_vars, recon_vars>>

\* The rows with the unique key of a transaction
same_unique_key(table, txn) ==
    { t \in table : /\ t.tenant_id = txn.tenant_id
                    /\ t.psp_connection_id = txn.psp_connection_id
                    /\ t.psp_transaction_id = txn.psp_transaction_id
                    /\ t.event_type = txn.event_type }

\* _store_normalized, lines 244-266: SELECT; a row that exists ends the store
\* and the object built by this call is what is returned
store_select(w) ==
    /\ nw[w].pc = "select"
    /\ IF same_unique_key(normalized_transaction, nw[w].normalized) # {}
       THEN nw' = [nw EXCEPT ![w].pc = "publish"]
       ELSE nw' = [nw EXCEPT ![w].pc = "insert"]
    /\ UNCHANGED <<normalized_transaction, normalized_stream, normalize_results,
                   next_uuid>>
    /\ UNCHANGED <<service_vars, config_vars, intake_vars, recon_vars>>

\* INSERT ... without a conflict target
insert_transaction_plain(table, row) == table \cup {row}

\* INSERT ... ON CONFLICT (tenant_id, psp_connection_id, psp_transaction_id,
\* event_type) DO NOTHING
insert_transaction(table, row) ==
    IF same_unique_key(table, row) # {} THEN table ELSE table \cup {row}

\* _store_normalized, lines 268-336: INSERT, commit, return normalized
store_insert(w) ==
    /\ nw[w].pc = "insert"
    /\ normalized_transaction' =
          insert_transaction(normalized_transaction, nw[w].normalized)
    /\ nw' = [nw EXCEPT ![w].pc = "publish"]
    /\ UNCHANGED <<normalized_stream, normalize_results, next_uuid>>
    /\ UNCHANGED <<service_vars, config_vars, intake_vars, recon_vars>>

\* The record _publish_to_matching puts on the normalized stream
normalized_record(normalized) ==
    [transaction_id |-> normalized.transaction_id,
     tenant_id |-> normalized.tenant_id,
     psp_connection_id |-> normalized.psp_connection_id,
     event_type |-> normalized.event_type,
     transaction_date |-> normalized.transaction_date,
     amount_value |-> normalized.amount_value,
     amount_currency |-> normalized.amount_currency,
     psp_transaction_id |-> normalized.psp_transaction_id,
     psp_payment_id |-> normalized.psp_payment_id,
     psp_settlement_id |-> normalized.psp_settlement_id,
     reconciliation_status |-> normalized.reconciliation_status]

\* normalize_event, lines 82-85: publish and return what the store returned
publish_to_matching(w, fault) ==
    /\ nw[w].pc = "publish"
    /\ IF fault
       THEN /\ NormalizeReturn(w, nw[w].raw, "StreamError", NoRow)
            /\ UNCHANGED normalized_stream
       ELSE /\ normalized_stream' =
                  Append(normalized_stream, normalized_record(nw[w].normalized))
            /\ NormalizeReturn(w, nw[w].raw, "result", nw[w].normalized)
    /\ UNCHANGED <<normalized_transaction, next_uuid>>
    /\ UNCHANGED <<service_vars, config_vars, intake_vars, recon_vars>>

----------------------------------------------------------------------------
(* MatchingEngine (services/reconciliation/matching_engine.py) *)

IdleMatch == [pc |-> "idle", txn |-> NoRow, level |-> 0, sel |-> NoRow,
              match |-> NoObj, exc_type |-> NULL]

\* _get_transaction: SELECT ... WHERE transaction_id = :transaction_id
get_transaction(tid) ==
    IF \E t \in normalized_transaction : t.transaction_id = tid
    THEN CHOOSE t \in normalized_transaction : t.transaction_id = tid
    ELSE NoRow

\* NOT EXISTS (SELECT 1 FROM reconciliation_match
\*             WHERE settlement_id = s.settlement_id AND status = 'MATCHED')
settlement_unmatched(s) ==
    ~ \E m \in reconciliation_match :
          m.settlement_id = s.settlement_id /\ m.status = "MATCHED"

\* int(amount * 0.01) and int(amount * 0.001): the tolerances of levels 2 and 3
tolerance_level_2(amount) == amount \div 100
tolerance_level_3(amount) == amount \div 1000

\* A Level 1 query without the tenant_id condition
level_1_candidates_any_tenant(txn) ==
    { s \in psp_settlement :
        /\ s.psp_connection_id = txn.psp_connection_id
        /\ s.psp_settlement_id = txn.psp_settlement_id
        /\ s.settlement_date = txn.transaction_date
        /\ settlement_unmatched(s) }

\* The WHERE clause of _match_level_1
level_1_candidates(txn) ==
    { s \in psp_settlement :
        /\ s.tenant_id = txn.tenant_id
        /\ s.psp_connection_id = txn.psp_connection_id
        /\ s.psp_settlement_id = txn.psp_settlement_id
        /\ s.settlement_date = txn.transaction_date
        /\ settlement_unmatched(s) }

level_2_candidates(txn) ==
    { s \in psp_settlement :
        /\ s.tenant_id = txn.tenant_id
        /\ s.psp_connection_id = txn.psp_connection_id
        /\ txn.psp_payment_id \in s.psp_transaction_ids
        /\ s.settlement_date = txn.transaction_date
        /\ s.amount_currency = txn.amount_currency
        /\ Abs(s.amount_value - txn.amount_value) <= tolerance_level_2(txn.amount_value)
        /\ settlement_unmatched(s) }

level_3_candidates(txn) ==
    { s \in psp_settlement :
        /\ s.tenant_id = txn.tenant_id
        /\ s.psp_connection_id = txn.psp_connection_id
        /\ s.settlement_date >= txn.transaction_date - 1
        /\ s.settlement_date <= txn.transaction_date + 1
        /\ s.amount_currency = txn.amount_currency
        /\ Abs(s.amount_value - txn.amount_value) <= tolerance_level_3(txn.amount_value)
        /\ settlement_unmatched(s)
        /\ (txn.customer_id # NULL => txn.customer_id \in s.psp_transaction_ids) }

level_4_candidates(txn) ==
    { s \in psp_settlement :
        /\ s.tenant_id = txn.tenant_id
        /\ s.psp_connection_id = txn.psp_connection_id
        /\ s.settlement_date = txn.transaction_date
        /\ s.amount_currency = txn.amount_currency
        /\ s.amount_value = txn.amount_value
        /\ settlement_unmatched(s) }

\* abs(amount_diff / amount * 100) as the fraction num/den; 0 when amount is 0
amount_diff_pct(txn, s) ==
    IF txn.amount_value > 0
    THEN [num |-> Abs(txn.amount_value - s.amount_value) * 100, den |-> txn.amount_value]
    ELSE [num |-> 0, den |-> 1]

\* 'MATCHED' if confidence >= 95.0 else 'PARTIAL_MATCH'
status_for_confidence(confidence) ==
    IF confidence >= 95 THEN "MATCHED" ELSE "PARTIAL_MATCH"

confidence_of_level(level) ==
    CASE level = 1 -> 100
      [] level = 2 -> 95
      [] level = 4 -> 60
      [] OTHER -> 0

\* Priority cuts that exclude their own threshold
exception_priority_above(amount) ==
    IF amount > 1000000 THEN "P1"
    ELSE IF amount > 100000 THEN "P2"
    ELSE IF amount > 10000 THEN "P3"
    ELSE "P4"

\* Priority from the transaction amount
exception_priority(amount) ==
    IF amount >= 1000000 THEN "P1"
    ELSE IF amount >= 100000 THEN "P2"
    ELSE IF amount >= 10000 THEN "P3"
    ELSE "P4"

MatchResult(status, confidence, match, exception) ==
    [kind |-> "result", status |-> status, confidence |-> confidence,
     match |-> match, exception |-> exception]

Raised(error) ==
    [kind |-> "raised", status |-> error, confidence |-> 0,
     match |-> NoObj, exception |-> NoExc]

MatchCallsBegun ==
    Len(match_results) + Cardinality({w \in MatchWorkers : mw[w].pc # "idle"})

MatchReturn(w, result) ==
    /\ mw' = [mw EXCEPT ![w] = IdleMatch]
    /\ match_results' = Append(match_results,
                               [transaction_id |-> mw[w].txn.transaction_id,
                                worker |-> w, result |-> result])

\* match_transaction, lines 66-78: load the transaction, return early when MATCHED
match_transaction(w, tid) ==
    /\ mw[w].pc = "idle"
    /\ MatchCallsBegun < MaxMatchCalls
    /\ LET transaction == get_transaction(tid) IN
        IF transaction = NoRow
        THEN /\ match_results' = Append(match_results,
                    [transaction_id |-> tid, worker |-> w,
                     result |-> Raised("ValueError")])
             /\ UNCHANGED mw
        ELSE IF transaction.reconciliation_status = "MATCHED"
        THEN /\ match_results' = Append(match_results,
                    [transaction_id |-> tid, worker |-> w,
                     result |-> MatchResult("MATCHED", 100, NoObj, NoExc)])
             /\ UNCHANGED mw
        ELSE /\ mw' = [mw EXCEPT ![w] = [IdleMatch EXCEPT !.pc = "level1",
                                                          !.txn = transaction]]
             /\ UNCHANGED match_results
    /\ UNCHANGED <<normalized_transaction, psp_settlement, reconciliation_match,
                   reconciliation_exception, ledger_entry, next_uuid, lw, post_results>>
    /\ UNCHANGED <<ingest_vars, service_vars>>

\* A ladder that may pass over a level whose SELECT returns a row
select_level_passing(w, level, applicable, candidates, next_pc) ==
    /\ \/ /\ applicable /\ candidates # {}
          /\ \E s \in candidates :
                mw' = [mw EXCEPT ![w].pc = "create", ![w].level = level, ![w].sel = s]
       \/ mw' = [mw EXCEPT ![w].pc = next_pc]
    /\ UNCHANGED <<normalized_transaction, psp_settlement, reconciliation_match,
                   reconciliation_exception, ledger_entry, next_uuid,
                   match_results, lw, post_results>>
    /\ UNCHANGED <<ingest_vars, service_vars>>

\* The SELECT of one level: fetchone() of an unordered result is any candidate
select_level(w, level, applicable, candidates, next_pc) ==
    /\ IF applicable /\ candidates # {}
       THEN \E s \in candidates :
               mw' = [mw EXCEPT ![w].pc = "create", ![w].level = level, ![w].sel = s]
       ELSE mw' = [mw EXCEPT ![w].pc = next_pc]
    /\ UNCHANGED <<normalized_transaction, psp_settlement, reconciliation_match,
                   reconciliation_exception, ledger_entry, next_uuid,
                   match_results, lw, post_results>>
    /\ UNCHANGED <<ingest_vars, service_vars>>

match_level_1(w) ==
    /\ mw[w].pc = "level1"
    /\ select_level(w, 1, mw[w].txn.psp_settlement_id # NULL,
                    level_1_candidates(mw[w].txn), "level2")

match_level_2(w) ==
    /\ mw[w].pc = "level2"
    /\ select_level(w, 2, mw[w].txn.psp_payment_id # NULL,
                    level_2_candidates(mw[w].txn), "level3")

\* Level 3 reads column 2 of the selected row (amount_currency) as the settlement
\* date: the subtraction raises TypeError before _create_match is reached.
match_level_3(w) ==
    /\ mw[w].pc = "level3"
    /\ IF level_3_candidates(mw[w].txn) # {}
       THEN /\ MatchReturn(w, Raised("TypeError"))
            /\ UNCHANGED <<normalized_transaction, psp_settlement, reconciliation_match,
                           reconciliation_exception, ledger_entry, next_uuid,
                           lw, post_results>>
       ELSE /\ mw' = [mw EXCEPT ![w].pc = "level4"]
            /\ UNCHANGED <<normalized_transaction, psp_settlement, reconciliation_match,
                           reconciliation_exception, ledger_entry, next_uuid,
                           match_results, lw, post_results>>
    /\ UNCHANGED <<ingest_vars, service_vars>>

match_level_4(w) ==
    /\ mw[w].pc = "level4"
    /\ IF level_4_candidates(mw[w].txn) # {}
       THEN \E s \in level_4_candidates(mw[w].txn) :
               mw' = [mw EXCEPT ![w].pc = "create", ![w].level = 4, ![w].sel = s]
       ELSE mw' = [mw EXCEPT ![w].pc = "exception", ![w].exc_type = "UNMATCHED"]
    /\ UNCHANGED <<normalized_transaction, psp_settlement, reconciliation_match,
                   reconciliation_exception, ledger_entry, next_uuid,
                   match_results, lw, post_results>>
    /\ UNCHANGED <<ingest_vars, service_vars>>

\* INSERT INTO reconciliation_match ... ON CONFLICT (tenant_id, transaction_id,
\* settlement_id) DO NOTHING
insert_match(table, row) ==
    IF \E m \in table : /\ m.tenant_id = row.tenant_id
                        /\ m.transaction_id = row.transaction_id
                        /\ m.settlement_id = row.settlement_id
    THEN table
    ELSE table \cup {row}

\* UPDATE normalized_transaction SET reconciliation_status = :status
\* WHERE transaction_id = :transaction_id
update_reconciliation_status(table, tid, status) ==
    { IF t.transaction_id = tid
      THEN [t EXCEPT !.reconciliation_status = status]
      ELSE t : t \in table }

match_row(w, match_id) ==
    LET txn == mw[w].txn
        s == mw[w].sel
        level == mw[w].level
        confidence == confidence_of_level(level)
    IN [match_id |-> match_id, tenant_id |-> txn.tenant_id,
        transaction_id |-> txn.transaction_id, settlement_id |-> s.settlement_id,
        match_level |-> level, confidence_score |-> confidence,
        match_method |-> "AUTO",
        amount_difference |->
            IF level = 2 THEN Some(txn.amount_value - s.amount_value) ELSE None,
        amount_difference_percent |->
            IF level = 2 THEN Some(amount_diff_pct(txn, s)) ELSE None,
        status |-> status_for_confidence(confidence)]

\* abs(match.amount_difference_percent or 0) < 1.0
diff_below_one_percent(match) ==
    \/ match.amount_difference_percent = None
    \/ match.amount_difference_percent[1].num < match.amount_difference_percent[1].den

\* _create_match: insert, status update and commit; then the caller's branch
create_match(w) ==
    /\ mw[w].pc = "create"
    /\ LET match == match_row(w, next_uuid) IN
        /\ reconciliation_match' = insert_match(reconciliation_match, match)
        /\ normalized_transaction' =
              update_reconciliation_status(normalized_transaction,
                                           match.transaction_id, match.status)
        /\ next_uuid' = next_uuid + 1
        /\ IF match.match_level = 1
           THEN MatchReturn(w, MatchResult("MATCHED", 100, match, NoExc))
           ELSE IF match.match_level = 2 /\ diff_below_one_percent(match)
           THEN MatchReturn(w, MatchResult("MATCHED", 95, match, NoExc))
           ELSE /\ mw' = [mw EXCEPT ![w].pc = "exception", ![w].match = match,
                                    ![w].exc_type =
                                        IF match.match_level = 2
                                        THEN "AMOUNT_MISMATCH" ELSE "PARTIAL_MATCH"]
                /\ UNCHANGED match_results
    /\ UNCHANGED <<psp_settlement, reconciliation_exception, ledger_entry,
                   lw, post_results>>
    /\ UNCHANGED <<ingest_vars, service_vars>>

exception_row(w, exception_id) ==
    LET txn == mw[w].txn IN
    [exception_id |-> exception_id, tenant_id |-> txn.tenant_id,
     transaction_id |-> txn.transaction_id,
     settlement_id |-> IF mw[w].match = NoObj THEN 0 ELSE mw[w].match.settlement_id,
     exception_type |-> mw[w].exc_type,
     amount_value |-> txn.amount_value, amount_currency |-> txn.amount_currency,
     priority |-> exception_priority(txn.amount_value), status |-> "OPEN"]

\* A _create_exception whose INSERT is never committed
create_exception_uncommitted(w) ==
    /\ mw[w].pc = "exception"
    /\ MatchReturn(w, Raised("AttributeError"))
    /\ UNCHANGED <<normalized_transaction, psp_settlement, reconciliation_match,
                   reconciliation_exception, next_uuid, ledger_entry, lw, post_results>>
    /\ UNCHANGED <<ingest_vars, service_vars>>

\* _create_exception: insert and commit; then the caller builds its MatchResult.
\* MatchStatus has no member UNMATCHED, so the no-match branch raises
\* AttributeError after the exception row is committed.
create_exception(w) ==
    /\ mw[w].pc = "exception"
    /\ LET exception == exception_row(w, next_uuid)
           match == mw[w].match
       IN
        /\ reconciliation_exception' = reconciliation_exception \cup {exception}
        /\ next_uuid' = next_uuid + 1
        /\ MatchReturn(w,
              IF mw[w].exc_type = "UNMATCHED" THEN Raised("AttributeError")
              ELSE IF match.match_level = 2
              THEN MatchResult("PARTIAL_MATCH", 95, match, exception)
              ELSE MatchResult("PENDING_REVIEW", match.confidence_score, match, exception))
    /\ UNCHANGED <<normalized_transaction, psp_settlement, reconciliation_match,
                   ledger_entry, lw, post_results>>
    /\ UNCHANGED <<ingest_vars, service_vars>>

----------------------------------------------------------------------------
(* LedgerService (services/ledger/ledger_service.py) *)

CASH_STRIPE_USD == "1001"
CASH_ADYEN_EUR == "1002"
CASH_PAYPAL_GBP == "1003"
ACCOUNTS_RECEIVABLE == "1100"
PLAYER_BALANCES == "2000"
PSP_FEES == "5000"
CHARGEBACK_LOSSES == "5200"

\* psp_connection_id.split('_') for the connection ids of the model
split_connection_id(psp_connection_id) ==
    CASE psp_connection_id = "psp_stripe_us_001" -> <<"psp", "stripe", "us", "001">>
      [] psp_connection_id = "psp_adyen_eu_001" -> <<"psp", "adyen", "eu", "001">>
      [] psp_connection_id = "psp_paypal_uk_001" -> <<"psp", "paypal", "uk", "001">>
      [] psp_connection_id = "stripe_us_001" -> <<"stripe", "us", "001">>
      [] psp_connection_id = "adyen_eu_001" -> <<"adyen", "eu", "001">>
      [] OTHER -> <<psp_connection_id>>

get_cash_account(psp_connection_id, currency) ==
    LET psp_name == split_connection_id(psp_connection_id)[1] IN
    CASE psp_name = "stripe" -> CASH_STRIPE_USD
      [] psp_name = "adyen" -> CASH_ADYEN_EUR
      [] psp_name = "paypal" -> CASH_PAYPAL_GBP
      [] OTHER -> CASH_STRIPE_USD

IdlePost == [pc |-> "idle", transaction_id |-> 0, match_id |-> 0, pending |-> <<>>]

\* _get_match: SELECT ... FROM reconciliation_match WHERE match_id = :match_id
get_match(mid) ==
    IF \E m \in reconciliation_match : m.match_id = mid
    THEN CHOOSE m \in reconciliation_match : m.match_id = mid
    ELSE NoObj

\* One call of _create_entry, before its identifier is drawn
entry(txn, match, account_debit, account_credit, amount, label) ==
    [tenant_id |-> txn.tenant_id, entity_id |-> txn.entity_id,
     transaction_date |-> txn.transaction_date,
     account_debit |-> account_debit, account_credit |-> account_credit,
     amount |-> amount, currency |-> txn.amount_currency,
     reference_transaction_id |-> txn.transaction_id,
     reference_match_id |-> match.match_id,
     description |-> <<label, txn.psp_transaction_id>>]

Built(entries) == [error |-> NULL, entries |-> entries]
Failed(error) == [error |-> error, entries |-> <<>>]

cash_account_of(txn) == get_cash_account(txn.psp_connection_id, txn.amount_currency)

\* _post_deposit.  transaction.get('net_amount', amount - psp_fee) evaluates its
\* default eagerly: a NULL psp_fee raises TypeError before any entry is built.
\* A NULL net_amount makes the first entry invalid.
post_deposit(txn, match) ==
    IF txn.psp_fee = None THEN Failed("TypeError")
    ELSE IF txn.net_amount = None THEN Failed("ValidationError")
    ELSE LET psp_fee == txn.psp_fee[1]
             entry1 == entry(txn, match, cash_account_of(txn), ACCOUNTS_RECEIVABLE,
                             txn.net_amount[1], "Deposit")
             entry2 == entry(txn, match, PSP_FEES, cash_account_of(txn),
                             psp_fee, "PSP Fee")
         IN Built(IF psp_fee > 0 THEN <<entry1, entry2>> ELSE <<entry1>>)

post_withdrawal(txn, match) ==
    Built(<<entry(txn, match, PLAYER_BALANCES, cash_account_of(txn),
                  txn.amount_value, "Withdrawal")>>)

post_refund(txn, match) ==
    Built(<<entry(txn, match, ACCOUNTS_RECEIVABLE, cash_account_of(txn),
                  txn.amount_value, "Refund")>>)

post_chargeback(txn, match) ==
    Built(<<entry(txn, match, CHARGEBACK_LOSSES, cash_account_of(txn),
                  txn.amount_value, "Chargeback"),
            entry(txn, match, ACCOUNTS_RECEIVABLE, ACCOUNTS_RECEIVABLE,
                  txn.amount_value, "Chargeback Reversal")>>)

post_fee(txn, match) ==
    Built(<<entry(txn, match, PSP_FEES, cash_account_of(txn),
                  txn.amount_value, "Fee")>>)

\* The event-type dispatch of post_matched_transaction
entries_for(txn, match) ==
    CASE txn.event_type = "DEPOSIT" -> post_deposit(txn, match)
      [] txn.event_type = "WITHDRAWAL" -> post_withdrawal(txn, match)
      [] txn.event_type = "REFUND" -> post_refund(txn, match)
      [] txn.event_type = "CHARGEBACK" -> post_chargeback(txn, match)
      [] txn.event_type = "FEE" -> post_fee(txn, match)
      [] OTHER -> Failed("ValueError")

\* _create_entry: the row inserted for the i-th entry of a call
\* A single-sided row: the credit account is not written
create_entry_debit_only(e, ledger_entry_id) ==
    [ledger_entry_id |-> ledger_entry_id, tenant_id |-> e.tenant_id,
     entity_id |-> e.entity_id, transaction_date |-> e.transaction_date,
     account_debit |-> e.account_debit, account_credit |-> NULL,
     amount |-> e.amount, currency |-> e.currency,
     reference_transaction_id |-> e.reference_transaction_id,
     reference_match_id |-> e.reference_match_id, description |-> e.description]

create_entry(e, ledger_entry_id) ==
    [ledger_entry_id |-> ledger_entry_id, tenant_id |-> e.tenant_id,
     entity_id |-> e.entity_id, transaction_date |-> e.transaction_date,
     account_debit |-> e.account_debit, account_credit |-> e.account_credit,
     amount |-> e.amount, currency |-> e.currency,
     reference_transaction_id |-> e.reference_transaction_id,
     reference_match_id |-> e.reference_match_id, description |-> e.description]

\* The rows a session holds after executing the first n inserts of a call
session_rows(entries, n, first_uuid) ==
    [i \in 1..n |-> create_entry(entries[i], first_uuid + i - 1)]

\* A session in autocommit mode: every executed insert is already in the table
rows_after_autocommit(pending) == pending

\* Leaving "with self.SessionLocal() as session" on an exception: the session is
\* closed without commit, so none of its pending rows reaches the table.
rows_after_rollback(pending) == {}

PostCallsBegun ==
    Len(post_results) + Cardinality({w \in PostWorkers : lw[w].pc # "idle"})

PostReturn(w, tid, mid, kind, entries) ==
    post_results' = Append(post_results,
        [transaction_id |-> tid, match_id |-> mid, worker |-> w,
         kind |-> kind, entries |-> entries])

SeqToSet(seq) == { seq[i] : i \in 1..Len(seq) }

\* post_matched_transaction, lines 81-103: load both rows, build the entries of
\* the event type inside the session.  fault_at = k > 0: the k-th INSERT fails
\* with a storage error.
post_matched_transaction(w, tid, mid, fault_at) ==
    /\ lw[w].pc = "idle"
    /\ PostCallsBegun < MaxPostCalls
    /\ LET transaction == get_transaction(tid)
           match == get_match(mid)
       IN
        IF transaction = NoRow \/ match = NoObj
        THEN /\ PostReturn(w, tid, mid, "ValueError", <<>>)
             /\ UNCHANGED <<lw, ledger_entry, next_uuid>>
        ELSE LET built == entries_for(transaction, match)
                 n == Len(built.entries)
             IN
              IF built.error # NULL \/ (fault_at > 0 /\ fault_at <= n)
              THEN LET done == IF built.error # NULL THEN n ELSE fault_at - 1
                       pending == session_rows(built.entries, done, next_uuid)
                   IN /\ ledger_entry' = ledger_entry \cup
                                            rows_after_rollback(SeqToSet(pending))
                      /\ next_uuid' = next_uuid + done
                      /\ PostReturn(w, tid, mid,
                                    IF built.error # NULL THEN built.error
                                    ELSE "StorageError", <<>>)
                      /\ UNCHANGED lw
              ELSE /\ lw' = [lw EXCEPT ![w] =
                               [pc |-> "commit", transaction_id |-> tid,
                                match_id |-> mid,
                                pending |-> session_rows(built.entries, n, next_uuid)]]
                   /\ next_uuid' = next_uuid + n
                   /\ UNCHANGED <<ledger_entry, post_results>>
    /\ UNCHANGED <<normalized_transaction, psp_settlement, reconciliation_match,
                   reconciliation_exception, mw, match_results>>
    /\ UNCHANGED <<ingest_vars, service_vars>>

\* post_matched_transaction, lines 105-117: UPDATE ... SET reconciliation_status =
\* 'POSTED', commit of the pending rows, return of the entries; fault: the
\* UPDATE or the commit fails with a storage error
post_commit(w, fault) ==
    /\ lw[w].pc = "commit"
    /\ IF fault
       THEN /\ ledger_entry' = ledger_entry \cup
                                  rows_after_rollback(SeqToSet(lw[w].pending))
            /\ UNCHANGED normalized_transaction
            /\ PostReturn(w, lw[w].transaction_id, lw[w].match_id, "StorageError", <<>>)
       ELSE /\ ledger_entry' = ledger_entry \cup SeqToSet(lw[w].pending)
            /\ normalized_transaction' =
                  update_reconciliation_status(normalized_transaction,
                                               lw[w].transaction_id, "POSTED")
            /\ PostReturn(w, lw[w].transaction_id, lw[w].match_id, "result",
                          lw[w].pending)
    /\ lw' = [lw EXCEPT ![w] = IdlePost]
    /\ UNCHANGED <<psp_settlement, reconciliation_match, reconciliation_exception,
                   next_uuid, mw, match_results>>
    /\ UNCHANGED <<ingest_vars, service_vars>>

----------------------------------------------------------------------------
(* Matching consumer and ledger poster wiring *)

\* The records handed to the ledger poster: one (transaction_id, match_id) per
\* match_transaction result with status MATCHED that carries a match.  Delivery
\* is at-least-once: a record can be handed over again.
matched_records ==
    { <<match_results[i].transaction_id, match_results[i].result.match.match_id>> :
        i \in { j \in 1..Len(match_results) :
                  /\ match_results[j].result.kind = "result"
                  /\ match_results[j].result.status = "MATCHED"
                  /\ match_results[j].result.match # NoObj } }

MatchStep(w) ==
    \/ \E t \in normalized_transaction : match_transaction(w, t.transaction_id)
    \/ match_level_1(w)
    \/ match_level_2(w)
    \/ match_level_3(w)
    \/ match_level_4(w)
    \/ create_match(w)
    \/ create_exception(w)

PostStep(w) ==
    \/ \E r \in matched_records : \E fault_at \in 0..2 :
          post_matched_transaction(w, r[1], r[2], fault_at)
    \/ \E fault \in BOOLEAN : post_commit(w, fault)

InitStore ==
    /\ reconciliation_match = {}
    /\ reconciliation_exception = {}
    /\ ledger_entry = {}
    /\ next_uuid = 100
    /\ mw = [w \in MatchWorkers |-> IdleMatch]
    /\ match_results = <<>>
    /\ lw = [w \in PostWorkers |-> IdlePost]
    /\ post_results = <<>>

InitRecon ==
    /\ psp_settlement \in SettlementTables
    /\ normalized_transaction \in TransactionTables
    /\ InitStore
    /\ InitIngestIdle

NextMatch == \E w \in MatchWorkers : MatchStep(w)

NextRecon ==
    \/ \E w \in MatchWorkers : MatchStep(w)
    \/ PostStep("p1")

\* Concurrent match_transaction calls over a loaded store
SpecMatch == InitRecon /\ [][NextMatch]_vars

\* Matching workers and the ledger poster together
SpecRecon == InitRecon /\ [][NextRecon]_vars

----------------------------------------------------------------------------
(* The ledger poster over a store of matched transactions *)

TxnDepositNoFee == Txn(21, "txn_5", 50000, NULL, "set_A", NULL, "DEPOSIT", None, Some(50000))
TxnFee == Txn(22, "txn_6", 2900, NULL, "set_A", NULL, "FEE", None, Some(2900))
TxnReversal ==
    Txn(23, "txn_7", 100000, NULL, "set_A", NULL, "CHARGEBACK_REVERSAL", None, Some(100000))
TxnEur ==
    [Txn(24, "txn_8", 100000, NULL, "set_A", NULL, "DEPOSIT", Some(1500), Some(98500))
       EXCEPT !.amount_currency = "EUR", !.psp_connection_id = "psp_adyen_eu_001"]

\* Stores after matching: each transaction MATCHED at level 1 with its own settlement
TxnGbp ==
    [Txn(25, "txn_9", 100000, NULL, "set_A", NULL, "DEPOSIT", Some(1500), Some(98500))
       EXCEPT !.amount_currency = "GBP", !.psp_connection_id = "psp_paypal_uk_001"]

MatchedScenarios ==
    { <<TxnA>>, <<TxnDepositNoFee>>, <<TxnB>>, <<TxnC>>, <<TxnD>>, <<TxnFee>>,
      <<TxnReversal>>, <<TxnEur>>, <<TxnGbp>>, <<TxnA, TxnD>>, <<TxnEur, TxnB>> }

settlement_of(txn, i) ==
    [Stl(i, i, txn.transaction_date, txn.amount_value, txn.psp_settlement_id, {})
       EXCEPT !.amount_currency = txn.amount_currency,
              !.psp_connection_id = txn.psp_connection_id]

level_1_match_of(txn, i) ==
    [match_id |-> 50 + i, tenant_id |-> txn.tenant_id,
     transaction_id |-> txn.transaction_id, settlement_id |-> i,
     match_level |-> 1, confidence_score |-> 100, match_method |-> "AUTO",
     amount_difference |-> None, amount_difference_percent |-> None,
     status |-> "MATCHED"]

InitLedger ==
    \E scenario \in MatchedScenarios :
      LET idx == 1..Len(scenario) IN
        /\ normalized_transaction =
              { [scenario[i] EXCEPT !.reconciliation_status = "MATCHED"] : i \in idx }
        /\ psp_settlement = { settlement_of(scenario[i], i) : i \in idx }
        /\ reconciliation_match = { level_1_match_of(scenario[i], i) : i \in idx }
        /\ match_results =
              [i \in idx |->
                 [transaction_id |-> scenario[i].transaction_id, worker |-> "m1",
                  result |-> MatchResult("MATCHED", 100,
                                         level_1_match_of(scenario[i], i), NoExc)]]
        /\ reconciliation_exception = {}
        /\ ledger_entry = {}
        /\ next_uuid = 100
        /\ mw = [w \in MatchWorkers |-> IdleMatch]
        /\ lw = [w \in PostWorkers |-> IdlePost]
        /\ post_results = <<>>
        /\ InitIngestIdle

NextLedger == \E w \in PostWorkers : PostStep(w)

SpecLedger == InitLedger /\ [][NextLedger]_vars

\* One match worker: match_transaction calls run one after the other
NextMatchSeq == MatchStep("m1")

SpecMatchSeq == InitRecon /\ [][NextMatchSeq]_vars

----------------------------------------------------------------------------
(* Specifications of intake and normalization *)

InitIntake ==
    /\ psp_connection \in ConnectionTables
    /\ fx_rate = {}
    /\ InitServicesIdle
    /\ InitIntakeIdle
    /\ InitNormalizerIdle
    /\ normalized_transaction = {}
    /\ psp_settlement = {}
    /\ InitStore

\* Two handlers at once; the number of calls is bounded separately, because the
\* interleavings of concurrent calls multiply
NextIntake ==
    \E w \in HandlerWorkers :
        \/ \E req \in Requests : \E lookup_fails \in BOOLEAN :
              /\ WebhookCallsBegun < MaxConcurrentWebhookCalls
              /\ handle_webhook(w, req, lookup_fails)
        \/ \E fault \in BOOLEAN : store_raw_event(w, fault)
        \/ \E fault \in BOOLEAN : mark_idempotent(w, fault)
        \/ \E fault \in BOOLEAN : publish_to_kinesis(w, fault)

\* Concurrent handle_webhook calls
SpecIntake == InitIntake /\ [][NextIntake]_vars

\* What intake leaves behind for a sequence of accepted requests
key_of(req) ==
    IF req.x_idempotency_key # NULL THEN <<req.x_idempotency_key>>
    ELSE generate_idempotency_key(req.psp_connection_id, req.body)

AcceptedRequests ==
    { <<ReqA>>, <<ReqA, ReqSettled>>, <<ReqEur, ReqA>>, <<ReqANoKey, ReqEur>>,
      <<ReqEurNet>> }

InitNormalize ==
    \E accepted \in AcceptedRequests :
      LET idx == 1..Len(accepted) IN
        /\ raw_stream = [i \in idx |-> raw_record(accepted[i], key_of(accepted[i]), 100 + i)]
        /\ raw_archive = { [s3_path |-> 100 + i, tenant_id |-> accepted[i].tenant_id,
                            body |-> accepted[i].body] : i \in idx }
        /\ idempotency_table =
              { [idempotency_key |-> key_of(accepted[i]),
                 tenant_id |-> accepted[i].tenant_id, s3_path |-> 100 + i] : i \in idx }
        /\ responses = [i \in idx |->
              [worker |-> "h1", request |-> accepted[i], status_code |-> 200,
               status |-> "processed", idempotency_key |-> key_of(accepted[i]),
               s3_path |-> 100 + i, detail |-> NULL]]
        /\ hw = [w \in HandlerWorkers |-> IdleHandler]
        /\ psp_connection \in ConnectionTables
        /\ fx_rate \in FxTables
        /\ InitServicesIdle
        /\ InitNormalizerIdle
        /\ normalized_transaction = {}
        /\ psp_settlement = {}
        /\ reconciliation_match = {}
        /\ reconciliation_exception = {}
        /\ ledger_entry = {}
        /\ next_uuid = 100 + Len(accepted) + 1
        /\ mw = [w \in MatchWorkers |-> IdleMatch]
        /\ match_results = <<>>
        /\ lw = [w \in PostWorkers |-> IdlePost]
        /\ post_results = <<>>

\* The raw stream delivers at least once: any record can reach any worker
NormalizeStep(w) ==
    \/ \E i \in 1..Len(raw_stream) : normalize_event(w, raw_stream[i])
    \/ store_select(w)
    \/ store_insert(w)
    \/ \E fault \in BOOLEAN : publish_to_matching(w, fault)

NextNormalize == \E w \in NormalizerWorkers : NormalizeStep(w)

\* Concurrent normalize_event calls over a raw stream
SpecNormalize == InitNormalize /\ [][NextNormalize]_vars

\* Intake where no call to DynamoDB, S3 or Kinesis fails
NextIntakeNoFault ==
    \E w \in HandlerWorkers :
        \/ \E req \in Requests :
              /\ WebhookCallsBegun < MaxConcurrentWebhookCalls
              /\ handle_webhook(w, req, FALSE)
        \/ store_raw_event(w, FALSE)
        \/ mark_idempotent(w, FALSE)
        \/ publish_to_kinesis(w, FALSE)

SpecIntakeRace == InitIntake /\ [][NextIntakeNoFault]_vars

\* One normalization worker: normalize_event calls run one after the other
NextNormalizeSeq == NormalizeStep("n1")

SpecNormalizeSeq == InitNormalize /\ [][NextNormalizeSeq]_vars

\* Intake that keeps running: a handler that can take a step eventually takes
\* one (the event loop resumes every coroutine); calls to DynamoDB, S3 and
\* Kinesis may fail
SpecIntakeFair == InitIntake /\ [][NextIntake]_vars /\ WF_vars(NextIntake)

----------------------------------------------------------------------------
(* The pipeline: intake, normalization consumer, matching consumer *)

PipelineRequests == {ReqA, ReqSettled, ReqEur}

\* kinesis_normalization_consumer.lambda_handler: the records of the raw stream
\* in order, each handed to normalize_event
normalization_consumer(w) ==
    /\ NormalizeCallsBegun < Len(raw_stream)
    /\ normalize_event(w, raw_stream[NormalizeCallsBegun + 1])

\* kinesis_matching_consumer.lambda_handler: the records of the normalized
\* stream in order, each transaction_id handed to match_transaction; the result
\* is counted and nothing is published
matching_consumer(w) ==
    /\ MatchCallsBegun < Len(normalized_stream)
    /\ match_transaction(w, normalized_stream[MatchCallsBegun + 1].transaction_id)

\* What the normalization consumer has sent to the dead-letter queue: its
\* except branch counts the failure and logs it, the publishing is a TODO
dead_letter_queue == {}

Init ==
    /\ psp_connection = {ConnStripe, ConnStripeB}
    /\ fx_rate \in FxTables
    /\ InitServicesIdle
    /\ InitIntakeIdle
    /\ InitNormalizerIdle
    /\ normalized_transaction = {}
    /\ psp_settlement \in { {}, {StlStrong}, {StlStrong, StlExact} }
    /\ InitStore

Next ==
    \/ \E req \in PipelineRequests : handle_webhook("h1", req, FALSE)
    \/ store_raw_event("h1", FALSE)
    \/ mark_idempotent("h1", FALSE)
    \/ publish_to_kinesis("h1", FALSE)
    \/ normalization_consumer("n1")
    \/ store_select("n1")
    \/ store_insert("n1")
    \/ publish_to_matching("n1", FALSE)
    \/ matching_consumer("m1")
    \/ match_level_1("m1")
    \/ match_level_2("m1")
    \/ match_level_3("m1")
    \/ match_level_4("m1")
    \/ create_match("m1")
    \/ create_exception("m1")

\* Webhooks submitted one after the other through the whole pipeline, no
\* service failing
Spec == Init /\ [][Next]_vars

\* The pipeline with every stage kept running: the handler, the normalization
\* consumer and the matching consumer each take their next step eventually
SpecFair == Init /\ [][Next]_vars /\ WF_vars(Next)

----------------------------------------------------------------------------
(* Claims *)

matched_rows_of_settlement(sid) ==
    { m \in reconciliation_match : m.settlement_id = sid /\ m.status = "MATCHED" }

matched_rows_of_transaction(tid) ==
    { m \in reconciliation_match : m.transaction_id = tid /\ m.status = "MATCHED" }

ledger_rows_of_transaction(tid) ==
    { e \in ledger_entry : e.reference_transaction_id = tid }

\* C1: in every reachable state, under any interleaving of concurrent
\* match_transaction calls, each settlement row is referenced by at most one
\* Match row with status MATCHED.
C1_SettlementExclusive ==
    \A s \in psp_settlement :
        Cardinality(matched_rows_of_settlement(s.settlement_id)) <= 1

RECURSIVE SumSide(_, _, _)
\* Sum of the amounts of the entries of a group that post to one side
\* ("debit" or "credit") in currency ccy
SumSide(entries, side, ccy) ==
    IF entries = <<>> THEN 0
    ELSE LET e == Head(entries)
             account == IF side = "debit" THEN e.account_debit ELSE e.account_credit
         IN (IF e.currency = ccy /\ account # NULL THEN e.amount ELSE 0)
            + SumSide(Tail(entries), side, ccy)

Currencies == {"USD", "EUR"}

C4_PostedHasOneMatch ==
    \A t \in normalized_transaction :
        t.reconciliation_status = "POSTED" =>
            /\ Cardinality(matched_rows_of_transaction(t.transaction_id)) = 1
            /\ ledger_rows_of_transaction(t.transaction_id) # {}

\* C5: a post_matched_transaction call either commits all entries of its group
\* together with the POSTED update, or writes no ledger entry and leaves every
\* recon_status unchanged; a step that does not end a call writes nothing.
C5_AllOrNothing ==
    [][ IF Len(post_results') > Len(post_results)
        THEN LET r == post_results'[Len(post_results')]
                 txn == get_transaction(r.transaction_id)
                 match == get_match(r.match_id)
             IN IF r.kind = "result"
                THEN /\ ledger_entry' \ ledger_entry = SeqToSet(r.entries)
                     /\ Len(r.entries) = Len(entries_for(txn, match).entries)
                     /\ Len(r.entries) >= 1
                     /\ normalized_transaction' =
                          update_reconciliation_status(normalized_transaction,
                                                       r.transaction_id, "POSTED")
                ELSE /\ ledger_entry' = ledger_entry
                     /\ normalized_transaction' = normalized_transaction
        ELSE /\ ledger_entry' = ledger_entry
             /\ normalized_transaction' = normalized_transaction ]_vars

\* One call failed after inserts were pending in its session, another committed
C5_Witness ==
    /\ \E i \in 1..Len(post_results) : post_results[i].kind = "StorageError"
    /\ \E i \in 1..Len(post_results) : post_results[i].kind = "result"
    /\ next_uuid > 100 + Cardinality(ledger_entry)

\* C8: match_transaction(t) followed by match_transaction(t), nothing else
\* running in between, returns an identical MatchResult.
C8_SameResultTwice ==
    \A i \in 1..(Len(match_results) - 1) :
        match_results[i].transaction_id = match_results[i + 1].transaction_id
            => match_results[i].result = match_results[i + 1].result

\* C9: however often the same matched record is delivered, the ledger holds one
\* group for the transaction: no more rows than one posting of it writes.
C9_OneGroupPerTransaction ==
    \A t \in normalized_transaction :
        Cardinality(ledger_rows_of_transaction(t.transaction_id))
            <= Len(entries_for(t, NoObj).entries)

\* C3: after any interleaving of normalize_event calls, concurrent calls for
\* the same raw event included, at most one Transaction row exists for each
\* (tenant, connection, psp_txn_id, event_type).
C3_OneRowPerUniqueKey ==
    \A t \in normalized_transaction :
        same_unique_key(normalized_transaction, t) = {t}

\* Two calls built objects with the same unique key and both returned; one of
\* the two objects is not the row of the table
C3_Witness ==
    \E i, j \in 1..Len(normalize_results) :
        /\ i < j
        /\ normalize_results[i].kind = "result"
        /\ normalize_results[j].kind = "result"
        /\ normalize_results[j].stored
             \in same_unique_key({normalize_results[j].stored}, normalize_results[i].stored)
        /\ normalize_results[i].stored.transaction_id
             # normalize_results[j].stored.transaction_id
        /\ same_unique_key(normalized_transaction, normalize_results[i].stored) # {}

\* C7: normalize_event(raw) followed by normalize_event(raw): the second call
\* returns the row written by the first (same transaction_id, no field
\* differing from the stored row).
C7_SecondReturnsStoredRow ==
    \A i, j \in 1..Len(normalize_results) :
        ( /\ i < j
          /\ normalize_results[i].raw = normalize_results[j].raw
          /\ normalize_results[i].kind = "result"
          /\ normalize_results[j].kind = "result" )
        => /\ normalize_results[j].stored = normalize_results[i].stored
           /\ normalize_results[j].stored \in normalized_transaction

PipelineQuiet ==
    /\ hw["h1"].pc = "idle" /\ nw["n1"].pc = "idle" /\ mw["m1"].pc = "idle"
    /\ NormalizeCallsBegun = Len(raw_stream)
    /\ MatchCallsBegun = Len(normalized_stream)

\* C6: the same webhook submitted four times in sequence through the whole
\* pipeline yields one Transaction row, one Match row, one ledger-entry group,
\* and a Duplicate response on attempts 2 to 4.
C6_FourSubmissions ==
    ( /\ Len(responses) = 4
      /\ \A i \in 1..4 : responses[i].request = ReqA
      /\ StlStrong \in psp_settlement
      /\ PipelineQuiet )
    => /\ Cardinality(normalized_transaction) = 1
       /\ Cardinality(reconciliation_match) = 1
       /\ \A i \in 2..4 : responses[i].status = "duplicate"
       /\ \E t \in normalized_transaction :
             /\ ledger_rows_of_transaction(t.transaction_id) # {}
             /\ ledger_entry = ledger_rows_of_transaction(t.transaction_id)

IdempotencyKeys == { key_of(req) : req \in Requests }

key_marked(k) == \E item \in idempotency_table : item.idempotency_key = k

key_emitted(k) == \E i \in 1..Len(raw_stream) : raw_stream[i].idempotency_key = k

PspTransactionIds ==
    { Or(Get(req.body, "psp_transaction_id", NULL), Get(req.body, "psp_event_id", "")) :
        req \in PipelineRequests }

recon_status_is(psp_txn, status) ==
    \E t \in normalized_transaction :
        t.psp_transaction_id = psp_txn /\ t.reconciliation_status = status

\* C12: whenever match_transaction commits a match with confidence >= 95 the
\* MatchedRecord reaches the ledger poster, so that with every stage running
\* each MATCHED transaction eventually becomes POSTED.
C12_MatchedEventuallyPosted ==
    \A psp_txn \in PspTransactionIds :
        recon_status_is(psp_txn, "MATCHED") ~> recon_status_is(psp_txn, "POSTED")

\* The edges the reconciliation status may take
StatusEdges ==
    ({"PENDING"} \X {"MATCHED", "PARTIAL_MATCH", "UNMATCHED", "EXPECTED"})
    \cup ({"PARTIAL_MATCH", "UNMATCHED"} \X {"MATCHED"})
    \cup {<<"MATCHED", "POSTED">>}
    \cup ({"PENDING", "MATCHED", "PARTIAL_MATCH", "UNMATCHED", "EXPECTED", "POSTED"}
            \X {"VOIDED"})

status_change_allowed ==
    \A t \in normalized_transaction : \A u \in normalized_transaction' :
        (/\ t.transaction_id = u.transaction_id
         /\ t.reconciliation_status # u.reconciliation_status)
        => <<t.reconciliation_status, u.reconciliation_status>> \in StatusEdges

\* C13: across any sequence of match_transaction and post_matched_transaction
\* calls a transaction's reconciliation status changes only along the edges
\* PENDING -> {MATCHED, PARTIAL_MATCH, UNMATCHED, EXPECTED},
\* PARTIAL_MATCH/UNMATCHED -> MATCHED, MATCHED -> POSTED and any -> VOIDED;
\* a POSTED transaction never goes back to MATCHED.
C13_StatusFollowsEdges == [][status_change_allowed]_vars

\* The X-Signature header is absent or is not HMAC_SHA256(secret, body)
signature_differs(req) ==
    \/ req.x_signature = None
    \/ req.x_signature # valid_signature(req.tenant_id, req.psp_connection_id, req.body)

UnsignedKeys == { key_of(req) : req \in { r \in Requests : signature_differs(r) } }

\* C14: a request whose X-Signature is absent or differs from
\* HMAC_SHA256(secret, body) is answered with the signature rejection (401),
\* never with 202, duplicate or 500, and nothing is written for it to the
\* archive, the idempotency table or the stream.
C14_BadSignatureIs401 ==
    /\ \A i \in 1..Len(responses) :
          signature_differs(responses[i].request) => responses[i].status_code = 401
    /\ \A k \in UnsignedKeys \ { key_of(r) : r \in { q \in Requests : ~signature_differs(q) } } :
          ~key_marked(k) /\ ~key_emitted(k)

\* The tenant has an idempotency row under the key
key_marked_by(tenant_id, k) ==
    \E item \in idempotency_table :
        item.idempotency_key = k /\ item.tenant_id = tenant_id

committed_match(i) ==
    /\ match_results[i].result.kind = "result"
    /\ match_results[i].result.status = "MATCHED"
    /\ match_results[i].result.match # NoObj

\* C16: match_transaction entered for a transaction whose reconciliation
\* status is MATCHED returns early with the existing match: the result's match
\* is the persisted Match row of the transaction, its confidence is that
\* row's confidence, and no Match or Exception row is written.
C16_EarlyReturnGivesStoredMatch ==
    \A i, j \in 1..Len(match_results) :
        ( /\ i < j
          /\ match_results[i].transaction_id = match_results[j].transaction_id
          /\ committed_match(i) )
        => /\ match_results[j].result.kind = "result"
           /\ match_results[j].result.match = match_results[i].result.match
           /\ match_results[j].result.confidence =
                 match_results[i].result.match.confidence_score
           /\ matched_rows_of_transaction(match_results[j].transaction_id) =
                 {match_results[i].result.match}
           /\ match_results[j].result.exception = NoExc

\* The predicate of a ladder level holds for some currently unmatched settlement
level_satisfied(level, txn) ==
    CASE level = 1 -> txn.psp_settlement_id # NULL /\ level_1_candidates(txn) # {}
      [] level = 2 -> txn.psp_payment_id # NULL /\ level_2_candidates(txn) # {}
      [] level = 3 -> level_3_candidates(txn) # {}
      [] level = 4 -> level_4_candidates(txn) # {}

\* The call of worker w hits a level in this step
level_hit(w) == mw[w].pc # "create" /\ mw'[w].pc = "create"

first_hit_wins ==
    \A w \in MatchWorkers :
        /\ level_hit(w) =>
              /\ level_satisfied(mw'[w].level, mw'[w].txn)
              /\ mw'[w].sel \in psp_settlement
              /\ \A k \in 1..(mw'[w].level - 1) : ~level_satisfied(k, mw'[w].txn)
        /\ (mw[w].pc = "create" /\ mw'[w] # mw[w]) =>
              /\ mw'[w].pc \in {"idle", "exception"}
              /\ \E m \in reconciliation_match' :
                    /\ m.transaction_id = mw[w].txn.transaction_id
                    /\ m.match_level = mw[w].level
              /\ reconciliation_match' \ reconciliation_match \subseteq
                    { m \in reconciliation_match' : m.match_level = mw[w].level }
        /\ (mw[w].pc = "exception" /\ mw'[w] # mw[w]) => mw'[w].pc = "idle"

\* C17: the ladder is evaluated in order 1, 2, 3, 4 and the first hit wins:
\* the level at which match_transaction writes its Match is the smallest level
\* whose predicate some currently unmatched settlement of the same tenant and
\* connection satisfies, and once a level has hit no lower-priority level
\* writes a Match in that call.
C17_FirstHitWins == [][first_hit_wins]_vars

\* A Level-1 Match row is the only row of its transaction while a settlement
\* satisfying Level 2 for that transaction is still unmatched
C17_Witness ==
    \E m \in reconciliation_match : \E t \in normalized_transaction :
        /\ t.transaction_id = m.transaction_id
        /\ m.match_level = 1
        /\ level_satisfied(2, t)
        /\ { r \in reconciliation_match : r.transaction_id = t.transaction_id } = {m}

level_candidates(level, txn) ==
    CASE level = 1 -> level_1_candidates(txn)
      [] level = 2 -> level_2_candidates(txn)
      [] level = 3 -> level_3_candidates(txn)
      [] level = 4 -> level_4_candidates(txn)

\* Settlement a comes before settlement b for the transaction: smaller amount
\* difference, then smaller date difference, then smaller (batch, line)
comes_before(txn, a, b) ==
    LET da == Abs(a.amount_value - txn.amount_value)
        db == Abs(b.amount_value - txn.amount_value)
        ta == Abs(a.settlement_date - txn.transaction_date)
        tb == Abs(b.settlement_date - txn.transaction_date)
    IN \/ da < db
       \/ da = db /\ ta < tb
       \/ /\ da = db
          /\ ta = tb
          /\ a.settlement_batch_id = b.settlement_batch_id
          /\ a.settlement_line_number < b.settlement_line_number

picks_first_candidate ==
    \A w \in MatchWorkers :
        level_hit(w) =>
            \A s \in level_candidates(mw'[w].level, mw'[w].txn) :
                ~comes_before(mw'[w].txn, s, mw'[w].sel)

\* C18: when several settlements satisfy the predicate of the winning level,
\* match_transaction picks the one with the smallest amount difference, then
\* the smallest date difference, then the smallest (batch_id, line_no), so
\* that two runs over the same store pick the same settlement.
C18_TieBreakDeterministic == [][picks_first_candidate]_vars

\* The result carries a Level-2 Match whose amount difference is the given
\* number of hundredths of the transaction amount
level_2_result_with_drift(i, hundredths) ==
    /\ match_results[i].result.kind = "result"
    /\ match_results[i].result.match # NoObj
    /\ match_results[i].result.match.match_level = 2
    /\ \E t \in normalized_transaction :
          /\ t.transaction_id = match_results[i].transaction_id
          /\ Abs(match_results[i].result.match.amount_difference[1]) * 100
                = hundredths * t.amount_value

\* C19: for a settlement that references the transaction's psp_payment_id on
\* the same date in the same currency, an amount difference of exactly 1.0% of
\* the transaction amount yields a Level 2 result with status MATCHED.
C19_OnePercentIsMatched ==
    \A i \in 1..Len(match_results) :
        level_2_result_with_drift(i, 1) => match_results[i].result.status = "MATCHED"

\* C20: for a transaction of amount 100000 whose psp_payment_id is referenced
\* by a same-date, same-currency settlement of amount 98000 (2% drift),
\* match_transaction produces a Match of level 2 with status PARTIAL_MATCH and
\* an Exception of type AMOUNT_MISMATCH with priority P2.
C20_TwoPercentDriftIsPartial ==
    \A i \in 1..Len(match_results) :
        ( /\ psp_settlement = {StlDrift}
          /\ match_results[i].transaction_id = TxnA.transaction_id )
        => /\ match_results[i].result.kind = "result"
           /\ match_results[i].result.status = "PARTIAL_MATCH"
           /\ match_results[i].result.match # NoObj
           /\ match_results[i].result.match.match_level = 2
           /\ match_results[i].result.match \in reconciliation_match
           /\ match_results[i].result.exception # NoExc
           /\ match_results[i].result.exception.exception_type = "AMOUNT_MISMATCH"
           /\ match_results[i].result.exception.priority = "P2"

\* C21: for a transaction with no Level 1 or Level 2 candidate and a
\* same-currency, exact-amount settlement dated one day later that references
\* the transaction's customer_id, match_transaction produces a Match of level
\* 3 with confidence 80, status PARTIAL_MATCH, and an Exception of type
\* PARTIAL_MATCH.
C21_DatedShiftIsLevel3 ==
    \A i \in 1..Len(match_results) :
        ( /\ psp_settlement = {StlNextDay}
          /\ match_results[i].transaction_id = TxnD.transaction_id )
        => /\ match_results[i].result.kind = "result"
           /\ match_results[i].result.status = "PARTIAL_MATCH"
           /\ match_results[i].result.confidence = 80
           /\ match_results[i].result.match # NoObj
           /\ match_results[i].result.match.match_level = 3
           /\ match_results[i].result.match \in reconciliation_match
           /\ match_results[i].result.exception # NoExc
           /\ match_results[i].result.exception.exception_type = "PARTIAL_MATCH"

\* The call of worker w found no candidate at any level
no_level_hit(w) == mw[w].pc = "exception" /\ mw[w].exc_type = "UNMATCHED"

unmatched_exception_written ==
    \A w \in MatchWorkers :
        /\ (~no_level_hit(w) /\ no_level_hit(w)') =>
              \A k \in 1..4 : ~level_satisfied(k, mw'[w].txn)
        /\ (no_level_hit(w) /\ mw'[w] # mw[w]) =>
              /\ mw[w].match = NoObj
              /\ reconciliation_match' = reconciliation_match
              /\ \E e \in reconciliation_exception' \ reconciliation_exception :
                    /\ reconciliation_exception' = reconciliation_exception \cup {e}
                    /\ e.transaction_id = mw[w].txn.transaction_id
                    /\ e.exception_type = "UNMATCHED"
                    /\ e.priority = exception_priority(mw[w].txn.amount_value)
                    /\ (mw[w].txn.amount_value = 250 => e.priority = "P4")

\* C22: when no settlement satisfies any of the four levels, match_transaction
\* writes no Match row and creates an Exception of type UNMATCHED for the
\* transaction with the amount-derived priority (P4 for amount 250).
C22_NoMatchGivesUnmatchedException == [][unmatched_exception_written]_vars

\* The transaction of amount 250 has an UNMATCHED exception of priority P4 and
\* no Match row
C22_Witness ==
    \E e \in reconciliation_exception :
        /\ e.transaction_id = TxnC.transaction_id
        /\ e.exception_type = "UNMATCHED"
        /\ e.amount_value = 250
        /\ e.priority = "P4"
        /\ ~ \E m \in reconciliation_match : m.transaction_id = TxnC.transaction_id

----------------------------------------------------------------------------
(* match_transaction over transactions at the cuts of the exception priority *)

PriorityAmounts == {250, 5000, 9999, 10000, 99999, 100000, 999999, 1000000}

PriorityTxn(amount) ==
    Txn(15, "txn_5", amount, "pay_1", "set_A", "cust_1", "DEPOSIT", None, Some(amount))

\* No candidate; a Level-4 candidate; a Level-2 candidate at the edge of the
\* tolerance; a Level-1 candidate
PrioritySettlementTables(amount) ==
    { {},
      {Stl(8, 8, 15, amount, NULL, {})},
      {Stl(9, 9, 15, amount - tolerance_level_2(amount), NULL, {"pay_1"})},
      {Stl(10, 10, 15, amount, "set_A", {})} }

InitPriority ==
    /\ \E amount \in PriorityAmounts :
          /\ normalized_transaction = {PriorityTxn(amount)}
          /\ psp_settlement \in PrioritySettlementTables(amount)
    /\ InitStore
    /\ InitIngestIdle

SpecPriority == InitPriority /\ [][NextMatchSeq]_vars

base_currency_of(row) ==
    Get(normalizer_get_psp_config(row.tenant_id, row.psp_connection_id),
        "base_currency", NULL)

\* C24: when the parsed currency differs from the entity base currency and no
\* FX rate is available for the transaction date, normalize_event neither
\* persists a Transaction nor emits a NormalizedRecord for the event: every
\* persisted or emitted transaction is in the base currency of its entity.
C24_NoRateNoTransaction ==
    /\ \A t \in normalized_transaction :
          base_currency_of(t) # NULL => t.amount_currency = base_currency_of(t)
    /\ \A i \in 1..Len(normalized_stream) :
          base_currency_of(normalized_stream[i]) # NULL
          => normalized_stream[i].amount_currency = base_currency_of(normalized_stream[i])

\* C25: every Transaction persisted by the normalizer with both psp_fee and
\* net_amount set satisfies net_amount = amount_value - psp_fee, also when the
\* amount went through FX conversion and when the event supplies its own net.
C25_NetIsAmountMinusFee ==
    \A t \in normalized_transaction :
        (t.psp_fee # None /\ t.net_amount # None)
        => t.net_amount[1] = t.amount_value - t.psp_fee[1]

\* A Transaction row exists for the event of the raw record
record_persisted(raw) ==
    \E t \in normalized_transaction :
        /\ t.tenant_id = raw.tenant_id
        /\ t.psp_connection_id = raw.psp_connection_id
        /\ t.psp_transaction_id =
              Or(Get(raw.event_data, "psp_transaction_id", NULL),
                 Get(raw.event_data, "psp_event_id", ""))

\* C26: every raw record consumed by the normalization consumer ends either
\* as a persisted Transaction or in the dead-letter bucket; a record whose
\* normalization fails is never silently dropped.
C26_FailedRecordIsDeadLettered ==
    \A i \in 1..Len(normalize_results) :
        \/ record_persisted(normalize_results[i].raw)
        \/ normalize_results[i].raw \in dead_letter_queue

\* The (debit, credit, amount) triples of the rows of a posting
postings_of(entries) ==
    { <<entries[i].account_debit, entries[i].account_credit, entries[i].amount>> :
        i \in 1..Len(entries) }

\* C27: for every DEPOSIT transaction post_matched_transaction writes the
\* entry (Debit Cash, Credit AccountsReceivable, net) and the entry (Debit
\* PSPFees, Credit Cash, fee) exactly when psp_fee > 0; a deposit stored
\* without a fee is posted successfully with the single net entry.
C27_DepositEntries ==
    \A i \in 1..Len(post_results) : \A t \in normalized_transaction :
        ( /\ t.transaction_id = post_results[i].transaction_id
          /\ t.event_type = "DEPOSIT"
          /\ t.net_amount # None )
        => /\ post_results[i].kind \in {"result", "StorageError"}
           /\ post_results[i].kind = "result" =>
                 postings_of(post_results[i].entries) =
                    {<<cash_account_of(t), ACCOUNTS_RECEIVABLE, t.net_amount[1]>>}
                    \cup (IF t.psp_fee # None /\ t.psp_fee[1] > 0
                          THEN {<<PSP_FEES, cash_account_of(t), t.psp_fee[1]>>}
                          ELSE {})

\* The cash account of the PSP a connection id names
cash_account_of_psp(psp_connection_id) ==
    CASE psp_connection_id = "psp_stripe_us_001" -> CASH_STRIPE_USD
      [] psp_connection_id = "psp_adyen_eu_001" -> CASH_ADYEN_EUR
      [] psp_connection_id = "psp_paypal_uk_001" -> CASH_PAYPAL_GBP

\* C28: get_cash_account returns the cash account of the PSP named in the
\* connection id (Stripe for psp_stripe_us_001, Adyen for psp_adyen_eu_001,
\* PayPal for psp_paypal_uk_001): every deposit is posted against the cash
\* account of its PSP.
C28_CashAccountOfPsp ==
    \A e \in ledger_entry : \A t \in normalized_transaction :
        ( /\ t.transaction_id = e.reference_transaction_id
          /\ t.event_type = "DEPOSIT"
          /\ t.psp_connection_id \in
                {"psp_stripe_us_001", "psp_adyen_eu_001", "psp_paypal_uk_001"} )
        => /\ get_cash_account(t.psp_connection_id, t.amount_currency) =
                 cash_account_of_psp(t.psp_connection_id)
           /\ cash_account_of_psp(t.psp_connection_id) \in
                 {e.account_debit, e.account_credit}

\* The persisted Match rows of the pair a returned match names
rows_of_pair(match) ==
    { m \in reconciliation_match : /\ m.transaction_id = match.transaction_id
                                   /\ m.settlement_id = match.settlement_id }

\* C29: whenever match_transaction returns a MatchResult carrying a match, the
\* status of the persisted Match row equals MatchResult.status: a MATCHED row
\* exists only when the result status is MATCHED, and a Level 4 hit persists a
\* Match row with status PENDING_REVIEW.
C29_RowStatusIsResultStatus ==
    \A i \in 1..Len(match_results) :
        ( /\ match_results[i].result.kind = "result"
          /\ match_results[i].result.match # NoObj )
        => /\ rows_of_pair(match_results[i].result.match) # {}
           /\ \A m \in rows_of_pair(match_results[i].result.match) :
                 /\ m.status = match_results[i].result.status
                 /\ m.match_level = 4 => m.status = "PENDING_REVIEW"

\* C30: every NormalizedRecord published by normalize_event names a
\* transaction_id for which a Transaction row exists in the store, also when
\* the insert hit the existing-row path, so that the matching consumer never
\* fails with 'Transaction not found'.
C30_PublishedRecordHasRow ==
    \A i \in 1..Len(normalized_stream) :
        \E t \in normalized_transaction :
            t.transaction_id = normalized_stream[i].transaction_id

----------------------------------------------------------------------------
(* match_transaction under interruption *)

\* The process running match_transaction stops (crash, or the deadline of the
\* Lambda): the session block is left, what was committed stays committed and
\* nothing else is written.
interrupt_match(w) ==
    /\ mw[w].pc # "idle"
    /\ MatchReturn(w, Raised("Interrupted"))
    /\ UNCHANGED <<normalized_transaction, psp_settlement, reconciliation_match,
                   reconciliation_exception, ledger_entry, next_uuid, lw, post_results>>
    /\ UNCHANGED <<ingest_vars, service_vars>>

NextMatchInterrupted == MatchStep("m1") \/ interrupt_match("m1")

SpecMatchInterrupted == InitRecon /\ [][NextMatchInterrupted]_vars

\* A Match row of a hit that comes with an exception: Level 2 with a difference
\* of 1% or more, Level 3, Level 4
needs_exception(m) ==
    \/ m.match_level \in {3, 4}
    \/ m.match_level = 2 /\ ~diff_below_one_percent(m)

\* C31: for a Level 2 partial, Level 3 or Level 4 hit, the Match row, the
\* recon_status update and the Exception row are committed all-or-nothing: once
\* no match_transaction call is running (it ended or was interrupted), the store
\* does not hold the Match row and the status change without the Exception.
C31_MatchAndExceptionTogether ==
    (\A w \in MatchWorkers : mw[w].pc = "idle") =>
        \A m \in reconciliation_match :
            (/\ needs_exception(m)
             /\ \E t \in normalized_transaction :
                   /\ t.transaction_id = m.transaction_id
                   /\ t.reconciliation_status = m.status)
            => \E e \in reconciliation_exception :
                   /\ e.transaction_id = m.transaction_id
                   /\ e.settlement_id = m.settlement_id

\* The OPEN exception rows of one transaction
open_exceptions_of(tid) ==
    { e \in reconciliation_exception : e.transaction_id = tid /\ e.status = "OPEN" }

\* C32: after any number of match_transaction runs on the same transaction with
\* unchanged settlement data (redelivery, retry or reprocess_date_range), at
\* most one OPEN Exception row exists for that transaction.
C32_OneOpenExceptionPerTransaction ==
    \A t \in normalized_transaction :
        Cardinality(open_exceptions_of(t.transaction_id)) <= 1

\* The call of worker w, which found no candidate for a PENDING transaction,
\* ends and leaves the transaction UNMATCHED
no_match_sets_unmatched ==
    \A w \in MatchWorkers :
        (/\ no_level_hit(w)
         /\ mw[w].txn.reconciliation_status = "PENDING"
         /\ mw'[w].pc = "idle")
        => \E t \in normalized_transaction' :
              /\ t.transaction_id = mw[w].txn.transaction_id
              /\ t.reconciliation_status = "UNMATCHED"

\* C33: after match_transaction finds no candidate at any level for a PENDING
\* transaction, the transaction's recon_status is UNMATCHED (it is not left
\* PENDING).
C33_NoMatchSetsUnmatched == [][no_match_sets_unmatched]_vars

\* The row worker w read at the start of its call is no longer the stored row:
\* another writer has committed since
holds_stale_read(w) ==
    /\ mw[w].pc = "create"
    /\ get_transaction(mw[w].txn.transaction_id) # mw[w].txn

\* The status write of a stale writer changes nothing
stale_writer_keeps_status ==
    \A w \in MatchWorkers :
        (holds_stale_read(w) /\ mw'[w].pc # "create")
        => normalized_transaction' = normalized_transaction

\* C34: every recon_status update is conditional on the row version read by the
\* writer: when match_transaction and post_matched_transaction (or two
\* match_transaction calls) run concurrently on the same transaction, a writer
\* holding a stale read does not overwrite the other writer's committed status.
C34_StaleWriterDoesNotOverwrite == [][stale_writer_keeps_status]_vars

----------------------------------------------------------------------------
(* post_matched_transaction called with any stored transaction and match *)

PostAnyStep(w) ==
    \/ \E t \in normalized_transaction : \E m \in reconciliation_match :
         \E fault_at \in 0..2 :
            post_matched_transaction(w, t.transaction_id, m.match_id, fault_at)
    \/ \E fault \in BOOLEAN : post_commit(w, fault)

NextPostAny == PostAnyStep("p1")

SpecPostAny == InitLedger /\ [][NextPostAny]_vars

\* A call that writes ledger entries or sets POSTED was given a MATCHED
\* transaction and a MATCHED Match row of that transaction and tenant
posting_is_guarded ==
    \A w \in PostWorkers :
        (/\ lw[w].pc = "commit"
         /\ \/ ledger_entry' # ledger_entry
            \/ normalized_transaction' # normalized_transaction)
        => LET t == get_transaction(lw[w].transaction_id)
               m == get_match(lw[w].match_id)
           IN /\ t.reconciliation_status = "MATCHED"
              /\ m.status = "MATCHED"
              /\ m.transaction_id = t.transaction_id
              /\ m.tenant_id = t.tenant_id

\* C35: post_matched_transaction(t, m) writes ledger entries and sets POSTED
\* only when transaction t has recon_status MATCHED and m is a Match row with
\* status MATCHED whose transaction_id is t (same tenant); for any other (t, m)
\* it writes nothing.
C35_PostsOnlyMatchedPairs == [][posting_is_guarded]_vars

----------------------------------------------------------------------------
(* match_transaction over a store shared by two tenants and two connections *)

OfTenantB(row) == [row EXCEPT !.tenant_id = "tenant_b"]
OfOtherConnection(row) == [row EXCEPT !.psp_connection_id = "psp_adyen_eu_001"]

\* tenant_b's transaction with the PSP identifiers of TxnA
TxnATenantB == OfTenantB([TxnA EXCEPT !.transaction_id = 31])

\* Settlement lines of tenant_b and of the other connection that carry the
\* identifiers, date and amounts of tenant_a's lines
StlStrongTenantB == OfTenantB([StlStrong EXCEPT !.settlement_id = 21])
StlRefTenantB == OfTenantB([StlRef EXCEPT !.settlement_id = 22])
StlExactTenantB == OfTenantB([StlExact EXCEPT !.settlement_id = 23])
StlStrongOtherConnection == OfOtherConnection([StlStrong EXCEPT !.settlement_id = 24])
StlExactOtherConnection == OfOtherConnection([StlExact EXCEPT !.settlement_id = 25])

SharedSettlementTables ==
    { {StlStrongTenantB}, {StlStrong, StlStrongTenantB}, {StlRefTenantB},
      {StlRef, StlRefTenantB}, {StlExactTenantB}, {StlExact, StlExactTenantB},
      {StlStrongOtherConnection}, {StlExactOtherConnection},
      {StlExact, StlExactOtherConnection} }

SharedTransactionTables == { {TxnA, TxnATenantB}, {TxnA}, {TxnATenantB}, {TxnD} }

InitShared ==
    /\ psp_settlement \in SharedSettlementTables
    /\ normalized_transaction \in SharedTransactionTables
    /\ InitStore
    /\ InitIngestIdle

SpecShared == InitShared /\ [][NextMatch]_vars

\* The transaction and the settlement a row names are of one tenant and one
\* PSP connection, and the row carries that tenant
links_within_tenant(row) ==
    \E t \in normalized_transaction : \E s \in psp_settlement :
        /\ t.transaction_id = row.transaction_id
        /\ s.settlement_id = row.settlement_id
        /\ row.tenant_id = t.tenant_id
        /\ s.tenant_id = t.tenant_id
        /\ s.psp_connection_id = t.psp_connection_id

\* C36: every Match and Exception row written by match_transaction links a
\* transaction only to a settlement of the same tenant and the same PSP
\* connection; no sequence of calls produces a Match across tenants.
C36_RowsStayWithinTenant ==
    /\ \A m \in reconciliation_match : links_within_tenant(m)
    /\ \A e \in reconciliation_exception :
          e.settlement_id # 0 => links_within_tenant(e)

\* A Match row of tenant_b's transaction in a store that also holds tenant_a's
\* line with the same identifiers, still unmatched
C36_Witness ==
    \E m \in reconciliation_match :
        /\ m.tenant_id = "tenant_b"
        /\ m.transaction_id = TxnATenantB.transaction_id
        /\ m.settlement_id = StlStrongTenantB.settlement_id
        /\ StlStrong \in psp_settlement
        /\ settlement_unmatched(StlStrong)

\* handle_webhook does not go on to archive an event whose key is stored: with
\* the key in the table, only a failed lookup lets the call pass the check
stored_key_is_not_new ==
    \A w \in HandlerWorkers :
        (hw[w].pc = "idle" /\ hw'[w].pc = "store")
        => ~ \E item \in idempotency_table :
                 item.idempotency_key = hw'[w].idempotency_key

----------------------------------------------------------------------------
(* ReprocessingService (services/reconciliation/reprocessing.py) *)

\* datetime.date
Date(year, month, day) == [year |-> year, month |-> month, day |-> day]

is_leap(year) == (year % 4 = 0 /\ year % 100 # 0) \/ year % 400 = 0

days_in_month(year, month) ==
    IF month = 2 THEN (IF is_leap(year) THEN 29 ELSE 28)
    ELSE IF month \in {4, 6, 9, 11} THEN 30
    ELSE 31

\* a <= b on dates
date_le(a, b) ==
    \/ a.year < b.year
    \/ a.year = b.year /\ a.month < b.month
    \/ a.year = b.year /\ a.month = b.month /\ a.day <= b.day

\* min(a, b) on dates
date_min(a, b) == IF date_le(a, b) THEN a ELSE b

\* The dates of the calendar over the years of the runs
Calendar ==
    { d \in { Date(y, m, k) : y \in 2023..2025, m \in 1..12, k \in 1..31 } :
        d.day <= days_in_month(d.year, d.month) }

\* The start and end dates a backfill is asked for
BackfillDates ==
    { Date(2023, 11, 30), Date(2023, 12, 1), Date(2023, 12, 28), Date(2023, 12, 31),
      Date(2024, 1, 1), Date(2024, 1, 15), Date(2024, 1, 28), Date(2024, 1, 29),
      Date(2024, 2, 1), Date(2024, 2, 28), Date(2024, 2, 29), Date(2024, 3, 31) }

\* The SELECT of reprocess_date_range; the store keeps transaction_date as the
\* day of January 2024
transactions_in_range(tenant_id, start_date, end_date) ==
    { t \in normalized_transaction :
        /\ t.tenant_id = tenant_id
        /\ date_le(start_date, Date(2024, 1, t.transaction_date))
        /\ date_le(Date(2024, 1, t.transaction_date), end_date)
        /\ t.reconciliation_status \in {"PENDING", "UNMATCHED", "PARTIAL_MATCH"} }

\* backfill_historical, line 104: current_date = start_date
backfill_historical(tenant_id, start_date, end_date) ==
    /\ backfill.pc = "idle"
    /\ backfill' = [pc |-> "loop", tenant_id |-> tenant_id,
                    start_date |-> start_date, end_date |-> end_date,
                    current_date |-> start_date, ranges |-> <<>>,
                    total_processed |-> 0]
    /\ UNCHANGED <<chargeback, cw, chargeback_results>>
    /\ UNCHANGED <<ingest_vars, normalized_transaction, recon_vars, next_uuid>>

\* One turn of the while loop, lines 108-125: the batch ends on the 28th of the
\* month of current_date or on end_date, reprocess_date_range is called with
\* (current_date, batch_end), and current_date moves to the first of the next
\* month.  The SELECT of reprocess_date_range finds no transaction.
backfill_batch ==
    /\ backfill.pc = "loop"
    /\ date_le(backfill.current_date, backfill.end_date)
    /\ LET current_date == backfill.current_date
           batch_end == date_min(Date(current_date.year, current_date.month, 28),
                                 backfill.end_date)
           transactions == transactions_in_range(backfill.tenant_id,
                                                 current_date, batch_end)
       IN
        /\ transactions = {}
        /\ backfill' =
              [backfill EXCEPT
                 !.ranges = Append(@, [start_date |-> current_date,
                                        end_date |-> batch_end]),
                 !.total_processed = @ + Cardinality(transactions),
                 !.current_date =
                     IF batch_end.month = 12
                     THEN Date(batch_end.year + 1, 1, 1)
                     ELSE Date(batch_end.year, batch_end.month + 1, 1)]
    /\ UNCHANGED <<chargeback, cw, chargeback_results>>
    /\ UNCHANGED <<ingest_vars, normalized_transaction, recon_vars, next_uuid>>

\* The loop ends (current_date > end_date) and the totals are returned
backfill_return ==
    /\ backfill.pc = "loop"
    /\ ~date_le(backfill.current_date, backfill.end_date)
    /\ backfill' = [backfill EXCEPT !.pc = "done"]
    /\ UNCHANGED <<chargeback, cw, chargeback_results>>
    /\ UNCHANGED <<ingest_vars, normalized_transaction, recon_vars, next_uuid>>

InitBackfill ==
    /\ normalized_transaction = {}
    /\ psp_settlement = {}
    /\ InitStore
    /\ InitIngestIdle

NextBackfill ==
    \/ \E start_date \in BackfillDates : \E end_date \in BackfillDates :
          backfill_historical("tenant_a", start_date, end_date)
    \/ backfill_batch
    \/ backfill_return

SpecBackfill == InitBackfill /\ [][NextBackfill]_vars

SpecBackfillFair == InitBackfill /\ [][NextBackfill]_vars /\ WF_vars(NextBackfill)

\* A date is inside one of the ranges passed to reprocess_date_range
date_covered(d) ==
    \E i \in 1..Len(backfill.ranges) :
        /\ date_le(backfill.ranges[i].start_date, d)
        /\ date_le(d, backfill.ranges[i].end_date)

\* C38: backfill_historical(tenant, start_date, end_date) terminates, and the
\* date ranges it passes to reprocess_date_range together cover every date d
\* with start_date <= d <= end_date (including the 29th, 30th and 31st of each
\* month).
C38_BackfillCoversEveryDate ==
    backfill.pc = "done" =>
        \A d \in Calendar :
            (date_le(backfill.start_date, d) /\ date_le(d, backfill.end_date))
            => date_covered(d)

\* Every call of backfill_historical returns
BackfillTerminates == (backfill.pc = "loop") ~> (backfill.pc = "done")

----------------------------------------------------------------------------
(* ChargebackService (services/chargeback/chargeback_service.py) *)

ChargebackStatus ==
    {"INITIATED", "UNDER_REVIEW", "ACCEPTED", "DISPUTED", "WON", "LOST", "REVERSED"}

\* The row create_chargeback inserts: status INITIATED
ChargebackRow ==
    [chargeback_id |-> 41, tenant_id |-> "tenant_a", transaction_id |-> 14,
     psp_chargeback_id |-> "cb_1", status |-> "INITIATED",
     assigned_to_user_id |-> NULL, resolved_by_user_id |-> NULL]

\* get_chargeback: SELECT ... WHERE chargeback_id = :chargeback_id
get_chargeback(chargeback_id) ==
    IF \E c \in chargeback : c.chargeback_id = chargeback_id
    THEN CHOOSE c \in chargeback : c.chargeback_id = chargeback_id
    ELSE NoChargeback

\* The table valid_transitions of _is_valid_transition
valid_transitions(current_status) ==
    CASE current_status = "INITIATED" -> {"UNDER_REVIEW"}
      [] current_status = "UNDER_REVIEW" -> {"ACCEPTED", "DISPUTED"}
      [] current_status = "DISPUTED" -> {"WON", "LOST"}
      [] current_status = "WON" -> {"REVERSED"}
      [] OTHER -> {}

is_valid_transition(current_status, new_status) ==
    new_status \in valid_transitions(current_status)

ChargebackCallsBegun ==
    Len(chargeback_results) + Cardinality({w \in ChargebackWorkers : cw[w].pc # "idle"})

ChargebackReturn(w, chargeback_id, new_status, kind, row) ==
    chargeback_results' = Append(chargeback_results,
        [worker |-> w, chargeback_id |-> chargeback_id, new_status |-> new_status,
         kind |-> kind, chargeback |-> row])

\* update_chargeback_status, lines 162-170: read the row, validate the
\* transition against the status that was read
update_chargeback_status(w, chargeback_id, new_status, user_id) ==
    /\ cw[w].pc = "idle"
    /\ ChargebackCallsBegun < MaxChargebackCalls
    /\ LET row == get_chargeback(chargeback_id) IN
        IF row = NoChargeback
        THEN /\ ChargebackReturn(w, chargeback_id, new_status, "ValueError", NoChargeback)
             /\ UNCHANGED cw
        ELSE IF ~is_valid_transition(row.status, new_status)
        THEN /\ ChargebackReturn(w, chargeback_id, new_status, "ValueError", NoChargeback)
             /\ UNCHANGED cw
        ELSE /\ cw' = [cw EXCEPT ![w] = [pc |-> "update", chargeback |-> row,
                                         new_status |-> new_status,
                                         user_id |-> user_id]]
             /\ UNCHANGED chargeback_results
    /\ UNCHANGED <<backfill, chargeback>>
    /\ UNCHANGED <<ingest_vars, normalized_transaction, recon_vars, next_uuid>>

\* UPDATE chargeback SET status = :status, ... WHERE chargeback_id = :chargeback_id
update_chargeback_row(table, chargeback_id, new_status, user_id) ==
    { IF c.chargeback_id = chargeback_id
      THEN [c EXCEPT
              !.status = new_status,
              !.assigned_to_user_id =
                  IF new_status = "UNDER_REVIEW" THEN user_id ELSE @,
              !.resolved_by_user_id =
                  IF new_status \in {"ACCEPTED", "LOST", "REVERSED"} THEN user_id ELSE @]
      ELSE c : c \in table }

\* update_chargeback_status, lines 172-208: the UPDATE, the commit, the
\* reversal posting (a stub that writes nothing) and the row read back
chargeback_update(w) ==
    /\ cw[w].pc = "update"
    /\ chargeback' = update_chargeback_row(chargeback, cw[w].chargeback.chargeback_id,
                                           cw[w].new_status, cw[w].user_id)
    /\ ChargebackReturn(w, cw[w].chargeback.chargeback_id, cw[w].new_status, "result",
          CHOOSE c \in chargeback' : c.chargeback_id = cw[w].chargeback.chargeback_id)
    /\ cw' = [cw EXCEPT ![w] = IdleChargeback]
    /\ UNCHANGED backfill
    /\ UNCHANGED <<ingest_vars, normalized_transaction, recon_vars, next_uuid>>

InitChargeback ==
    /\ chargeback = {ChargebackRow}
    /\ backfill = IdleBackfill
    /\ cw = [w \in ChargebackWorkers |-> IdleChargeback]
    /\ chargeback_results = <<>>
    /\ psp_connection = {ConnStripe, ConnStripeB}
    /\ fx_rate = {}
    /\ InitIntakeIdle
    /\ InitNormalizerIdle
    /\ normalized_transaction = {TxnD}
    /\ psp_settlement = {}
    /\ InitStore

ChargebackStep(w) ==
    \/ \E new_status \in ChargebackStatus :
          update_chargeback_status(w, ChargebackRow.chargeback_id, new_status, "user_1")
    \/ chargeback_update(w)

NextChargeback == \E w \in ChargebackWorkers : ChargebackStep(w)

\* One worker: the calls run one after the other
NextChargebackSeq == ChargebackStep("c1")

\* Concurrent update_chargeback_status calls on one chargeback
SpecChargeback == InitChargeback /\ [][NextChargeback]_vars

SpecChargebackSeq == InitChargeback /\ [][NextChargebackSeq]_vars

\* The edges of the chargeback workflow
ChargebackEdges ==
    { <<"INITIATED", "UNDER_REVIEW">>, <<"UNDER_REVIEW", "ACCEPTED">>,
      <<"UNDER_REVIEW", "DISPUTED">>, <<"DISPUTED", "WON">>, <<"DISPUTED", "LOST">>,
      <<"WON", "REVERSED">> }

chargeback_change_allowed ==
    \A c \in chargeback : \A d \in chargeback' :
        (d.chargeback_id = c.chargeback_id /\ d # c)
        => <<c.status, d.status>> \in ChargebackEdges

\* C39: a chargeback's status changes only along INITIATED -> UNDER_REVIEW,
\* UNDER_REVIEW -> {ACCEPTED, DISPUTED}, DISPUTED -> {WON, LOST}, WON ->
\* REVERSED, for any sequence and any interleaving of concurrent
\* update_chargeback_status calls; ACCEPTED, LOST and REVERSED are terminal and
\* an invalid transition request leaves the row unchanged.
C39_ChargebackFollowsEdges == [][chargeback_change_allowed]_vars

====
